---- MODULE Spec2Model ----
(***************************************************************************)
(* A model of the financial agent: the alert engine (services/alerts.js),  *)
(* the categorizer (services/categorizer.js) and the transaction model     *)
(* (database/models.js) over the tables of config/database.sql.            *)
(*                                                                         *)
(* JavaScript runs every handler to completion between two awaits, so each *)
(* await of a handler is one step of a call; the code between two awaits   *)
(* is atomic.  Every await is a storage read or write, which may fail.     *)
(* Money is in whole pesos and compared exactly (cross-multiplied), the    *)
(* clock is in seconds (the code's millisecond constants divided by 1000). *)
(***************************************************************************)
EXTENDS Integers, Sequences, FiniteSets, TLC

VARIABLES
    now,            \* Date.now() / NOW()
    transactions,   \* table transactions: a sequence of rows
    user_config,    \* table user_config: a set of rows, user_phone unique
    sentAlerts,     \* AlertEngine.sentAlerts: user -> sequence of {key, timestamp}
    pc,             \* per call: the await it is suspended at
    arg,            \* per call: the arguments it was started with
    loc,            \* per call: its local variables
    ret,            \* per call: what it returned
    lastEmit,       \* history: user -> key -> time the key was last returned to a caller
    started,        \* history: number of calls started
    failures,       \* history: number of storage failures injected
    advances,       \* history: number of clock steps taken
    categories,     \* table categories: the rows in the order of their names
    categoriesCache,\* ExpenseCategorizer.categoriesCache: <<>> (null) or <<rows>>
    cacheExpiration,\* ExpenseCategorizer.cacheExpiration: 0 (null) or a time
    cacheLog,       \* history: versions of the directory in the table and the cache
    isConnected,    \* WhatsAppBot.isConnected
    reconnectAttempts, \* WhatsAppBot.reconnectAttempts
    sock,           \* WhatsAppBot.sock: "null", or the state of the current socket
    timers,         \* the delays (ms) of the pending setTimeout(() => this.initialize())
    events,         \* history: number of connection.update events delivered
    closeLog        \* history: what the handler did at the last 'close'

vars == <<now, transactions, user_config, sentAlerts, pc, arg, loc, ret,
          lastEmit, started, failures, advances,
          categories, categoriesCache, cacheExpiration, cacheLog,
          isConnected, reconnectAttempts, sock, timers, events, closeLog>>

\* The state of the bot's connection.
botVars == <<isConnected, reconnectAttempts, sock, timers, events, closeLog>>

\* The state of the categorizer and its table.
catVars == <<categories, categoriesCache, cacheExpiration, cacheLog>>

(***************************************************************************)
(* Bounds of the model.                                                    *)
(***************************************************************************)
MaxCalls == 2
MaxFailures == 1
MaxAdvances == 2

Slots == {1, 2}
Users == {"u1", "u2"}
NULL == "null"
NEVER == -1

MINUTE == 60
HOUR == 60 * MINUTE
DAY == 24 * HOUR
T0 == 100 * DAY

\* The clock steps: one second short of the window, and the second.
TimeSteps == {HOUR - 1, 1}

Amounts == {20, 70, 150}
CategoryArgs == {NULL, "comida"}

(***************************************************************************)
(* Sequence helpers.                                                       *)
(***************************************************************************)
RECURSIVE SumAmount(_)
SumAmount(rows) ==
    IF rows = <<>> THEN 0 ELSE Head(rows).amount + SumAmount(Tail(rows))

Range(s) == {s[i] : i \in 1..Len(s)}

(***************************************************************************)
(* AlertEngine constructor.                                                *)
(***************************************************************************)
BUDGET_WARNING == "budget_warning"
BUDGET_EXCEEDED == "budget_exceeded"
CATEGORY_LIMIT == "category_limit"
UNUSUAL_SPENDING == "unusual_spending"
SPENDING_PATTERN == "spending_pattern"

LOW == 1
MEDIUM == 2
HIGH == 3
CRITICAL == 4

\* 60 * 60 * 1000 ms
cacheTimeout == 60 * 60

(***************************************************************************)
(* Tables.                                                                 *)
(***************************************************************************)
\* user_config row with the column defaults of the table.
DefaultUserConfig(userPhone) ==
    [user_phone |-> userPhone, daily_limit |-> 100, weekly_limit |-> 1000,
     monthly_limit |-> 10000, thresholds_is_array |-> TRUE,
     alert_thresholds |-> <<70, 90>>]

\* SELECT * FROM user_config WHERE user_phone = $1
SelectUserConfig(userPhone) == {r \in user_config : r.user_phone = userPhone}

\* rows WHERE user_phone = $1 AND date >= NOW() - INTERVAL
RowsSince(userPhone, interval) ==
    SelectSeq(transactions,
              LAMBDA r : r.user_phone = userPhone /\ r.date >= now - interval)

RowsCategorySince(userPhone, category, interval) ==
    SelectSeq(transactions,
              LAMBDA r : /\ r.user_phone = userPhone
                         /\ r.category = category
                         /\ r.date >= now - interval)

HourOf(t) == (t \div HOUR) % 24

\* rows WHERE user_phone = $1 AND EXTRACT(hour FROM date) = $2 AND date >= NOW() - 60 days
RowsAtHour(userPhone, hour) ==
    SelectSeq(transactions,
              LAMBDA r : /\ r.user_phone = userPhone
                         /\ HourOf(r.date) = hour
                         /\ r.date >= now - 60 * DAY)

(***************************************************************************)
(* checkBudgetAlerts: the periods and the alerts of one period.            *)
(***************************************************************************)
periods(userConfig) ==
    << [name |-> "diario",  limit |-> userConfig.daily_limit,   interval |-> DAY],
       [name |-> "semanal", limit |-> userConfig.weekly_limit,  interval |-> 7 * DAY],
       [name |-> "mensual", limit |-> userConfig.monthly_limit, interval |-> 30 * DAY] >>

Alert(type, priority, period, category, pattern, threshold) ==
    [type |-> type, priority |-> priority, period |-> period,
     category |-> category, pattern |-> pattern, threshold |-> threshold]

thresholdsOf(userConfig) ==
    IF userConfig.thresholds_is_array THEN userConfig.alert_thresholds ELSE <<70, 90>>

\* percentage >= threshold && percentage < threshold + 10,
\* percentage = (projectedSpent / limit) * 100, limit > 0.
InBandClosed(projectedSpent, limit, threshold) ==
    /\ projectedSpent * 100 >= threshold * limit
    /\ projectedSpent * 100 <= (threshold + 10) * limit

InBand(projectedSpent, limit, threshold) ==
    /\ projectedSpent * 100 >= threshold * limit
    /\ projectedSpent * 100 < (threshold + 10) * limit

WarningPriority(projectedSpent, limit) ==
    IF projectedSpent * 100 >= 90 * limit THEN HIGH ELSE MEDIUM

RECURSIVE WarningAlerts(_, _, _)
WarningAlerts(period, projectedSpent, thresholds) ==
    IF thresholds = <<>> THEN <<>>
    ELSE (IF InBand(projectedSpent, period.limit, Head(thresholds))
          THEN << Alert(BUDGET_WARNING, WarningPriority(projectedSpent, period.limit),
                        period.name, NULL, NULL, Head(thresholds)) >>
          ELSE <<>>)
         \o WarningAlerts(period, projectedSpent, Tail(thresholds))

ExceededAlerts(period, projectedSpent) ==
    IF projectedSpent > period.limit
    THEN << Alert(BUDGET_EXCEEDED, CRITICAL, period.name, NULL, NULL, 0) >>
    ELSE <<>>

PeriodAlerts(userConfig, i, spent, newExpenseAmount) ==
    LET period == periods(userConfig)[i]
        projectedSpent == spent + newExpenseAmount
    IN  WarningAlerts(period, projectedSpent, thresholdsOf(userConfig))
        \o ExceededAlerts(period, projectedSpent)

(***************************************************************************)
(* filterRecentAlerts and registerSentAlerts.                              *)
(***************************************************************************)
alertKeyOfScope(alert) ==
    << "alert",
       IF alert.period # NULL THEN alert.period
       ELSE IF alert.category # NULL THEN alert.category
       ELSE "general" >>

alertKey(alert) ==
    << alert.type,
       IF alert.period # NULL THEN alert.period
       ELSE IF alert.category # NULL THEN alert.category
       ELSE "general" >>

validSentAlertsKept(sent, t) == sent

validSentAlertsInclusive(sent, t) ==
    SelectSeq(sent, LAMBDA e : t - e.timestamp <= cacheTimeout)

validSentAlerts(sent, t) ==
    SelectSeq(sent, LAMBDA e : t - e.timestamp < cacheTimeout)

filterRecentAlerts(sent, alerts, t) ==
    SelectSeq(alerts,
              LAMBDA a : ~ \E i \in 1..Len(validSentAlerts(sent, t)) :
                               validSentAlerts(sent, t)[i].key = alertKey(a))

registerSentAlertsOnly(sent, alerts, t) ==
    [i \in 1..Len(alerts) |-> [key |-> alertKey(alerts[i]), timestamp |-> t]]

RECURSIVE registerSentAlerts(_, _, _)
registerSentAlerts(sent, alerts, t) ==
    IF alerts = <<>> THEN sent
    ELSE registerSentAlerts(Append(sent, [key |-> alertKey(Head(alerts)), timestamp |-> t]),
                            Tail(alerts), t)

(***************************************************************************)
(* Text.  Strings are JavaScript strings; the operators below are the      *)
(* String methods the categorizer calls.                                   *)
(***************************************************************************)
CharAt(s, i) == SubSeq(s, i, i)

\* s.indexOf(c, i - 1) + 1
RECURSIVE IndexFrom(_, _, _)
IndexFrom(s, c, i) ==
    IF i + Len(c) - 1 > Len(s) THEN 0
    ELSE IF SubSeq(s, i, i + Len(c) - 1) = c THEN i
    ELSE IndexFrom(s, c, i + 1)

IndexOf(s, c) == IndexFrom(s, c, 1)

\* s.includes(sub)
includes(s, sub) ==
    \E i \in 0..(Len(s) - Len(sub)) : SubSeq(s, i + 1, i + Len(sub)) = sub

\* The replacement of single characters: from[i] becomes to[i].
CharMap(from, to) ==
    [c \in {CharAt(from, i) : i \in 1..Len(from)} |-> CharAt(to, IndexOf(from, c))]

RECURSIVE ReplaceChars(_, _)
ReplaceChars(s, map) ==
    IF s = "" THEN ""
    ELSE LET c == CharAt(s, 1) IN
         (IF c \in DOMAIN map THEN map[c] ELSE c) \o ReplaceChars(Tail(s), map)

UpperCase == "ABCDEFGHIJKLMNOPQRSTUVWXYZÁÉÍÓÚÑ"
LowerCase == "abcdefghijklmnopqrstuvwxyzáéíóúñ"
LowerCaseMap == CharMap(UpperCase, LowerCase)

\* [áàä] -> a, [éèë] -> e, [íìï] -> i, [óòö] -> o, [úùü] -> u, ñ -> n
AccentMap == CharMap("áàäéèëíìïóòöúùüñ", "aaaeeeiiiooouuun")

Whitespace == {" ", "\t", "\n"}
Plain == {CharAt("abcdefghijklmnopqrstuvwxyz0123456789", i) : i \in 1..36}

toLowerCase(s) == ReplaceChars(s, LowerCaseMap)

IsSpace(c) == c \in Whitespace

RECURSIVE trimStart(_)
trimStart(s) ==
    IF s # "" /\ IsSpace(CharAt(s, 1)) THEN trimStart(Tail(s)) ELSE s

RECURSIVE trimEnd(_)
trimEnd(s) ==
    IF s # "" /\ IsSpace(CharAt(s, Len(s)))
    THEN trimEnd(SubSeq(s, 1, Len(s) - 1)) ELSE s

trim(s) == trimEnd(trimStart(s))

\* .replace(/[^a-z0-9\s]/g, ' ')
RECURSIVE replaceSpecial(_)
replaceSpecial(s) ==
    IF s = "" THEN ""
    ELSE LET c == CharAt(s, 1) IN
         (IF c \in Plain \/ IsSpace(c) THEN c ELSE " ") \o replaceSpecial(Tail(s))

\* .replace(/\s+/g, ' ')
RECURSIVE collapseSpaces(_)
collapseSpaces(s) ==
    IF s = "" THEN ""
    ELSE IF IsSpace(CharAt(s, 1))
         THEN " " \o collapseSpaces(trimStart(s))
         ELSE CharAt(s, 1) \o collapseSpaces(Tail(s))

\* s.split(' ')
RECURSIVE split(_)
split(s) ==
    LET i == IndexOf(s, " ") IN
    IF i = 0 THEN <<s>>
    ELSE <<SubSeq(s, 1, i - 1)>> \o split(SubSeq(s, i + 1, Len(s)))

normalizeDescription(description) ==
    trim(collapseSpaces(replaceSpecial(
        ReplaceChars(trim(toLowerCase(description)), AccentMap))))

(***************************************************************************)
(* The category directory and the scoring of the categorizer.              *)
(***************************************************************************)
Category(name, keywords) == [name |-> name, keywords |-> keywords]

\* INSERT INTO categories ..., as SELECT * FROM categories ORDER BY name gives it
SeedCategories ==
    << Category("comida", <<"restaurante", "comida", "tacos", "delivery", "rappi", "ubereats">>),
       Category("compras", <<"amazon", "mercadolibre", "ropa">>),
       Category("entretenimiento", <<"cine", "bar", "antro", "apple music", "prime", "hbo max">>),
       Category("gastos_fijos", <<"super", "renta">>),
       Category("otros", <<>>),
       Category("salud", <<"dermatologo", "dentista", "medicina", "farmacia", "consulta">>),
       Category("servicios", <<"luz", "agua", "internet", "telefono">>),
       Category("transporte", <<"uber", "gasolina", "taxi", "camion", "tren">>) >>

brands ==
    [comida |-> <<"mcdonalds", "kfc", "subway", "dominos", "starbucks", "oxxo">>,
     transporte |-> <<"pemex", "shell", "bp", "mobil">>,
     entretenimiento |-> <<"netflix", "spotify", "amazon prime", "disney">>,
     compras |-> <<"amazon", "mercadolibre", "liverpool", "palacio">>,
     servicios |-> <<"telmex", "izzi", "totalplay", "telcel">>]

locations ==
    [comida |-> <<"restaurante", "cocina", "bar", "cafe", "cafeteria">>,
     transporte |-> <<"gasolinera", "estacion", "terminal", "aeropuerto">>,
     entretenimiento |-> <<"cine", "teatro", "estadio", "parque">>,
     compras |-> <<"tienda", "mall", "plaza", "centro comercial">>,
     salud |-> <<"hospital", "clinica", "farmacia", "consultorio">>]

actions ==
    [comida |-> <<"comer", "almorzar", "cenar", "desayunar", "merendar">>,
     transporte |-> <<"viajar", "manejar", "conducir", "transportar">>,
     entretenimiento |-> <<"divertir", "jugar", "ver", "escuchar">>,
     compras |-> <<"comprar", "adquirir", "conseguir">>,
     salud |-> <<"curar", "medicar", "consultar", "tratar">>]

\* matchWeights
exact == 10
brand == 8
location == 6
action == 4
partial == 2

\* Scores are kept in units of 1/ScoreScale, so that frequency * similarity * 2
\* is a whole number for every similarity with a denominator up to 6.
ScoreScale == 3 * 4 * 5

\* if (score > maxScore && score > 2)
Threshold == 2 * ScoreScale

\* Math.min(score, 20)
LearningCap == 20 * ScoreScale

RECURSIVE SumSeq(_)
SumSeq(s) == IF s = <<>> THEN 0 ELSE Head(s) + SumSeq(Tail(s))

calculateKeywordScore(description, keywords) ==
    LET words == split(description)
        ScoreOf(kw) ==
            LET normalizedKeyword == toLowerCase(kw) IN
            (IF includes(description, normalizedKeyword) THEN exact ELSE 0)
            + partial * Cardinality({i \in 1..Len(words) :
                  \/ includes(words[i], normalizedKeyword)
                  \/ includes(normalizedKeyword, words[i])})
    IN  SumSeq([i \in 1..Len(keywords) |-> ScoreOf(keywords[i])])

\* The entries of a context table for a category; none when it has no entry.
ContextOf(table, categoryName) ==
    IF categoryName \in DOMAIN table THEN table[categoryName] ELSE <<>>

Matches(description, list) ==
    Cardinality({i \in 1..Len(list) : includes(description, toLowerCase(list[i]))})

calculateContextScore(description, categoryName) ==
    brand * Matches(description, ContextOf(brands, categoryName))
    + location * Matches(description, ContextOf(locations, categoryName))
    + action * Matches(description, ContextOf(actions, categoryName))

\* intersection.size and union.size of the two word sets
calculateSimilarity(text1, text2) ==
    LET words1 == Range(split(text1))
        words2 == Range(split(text2))
    IN  [intersection |-> Cardinality(words1 \cap words2),
         union |-> Cardinality(words1 \cup words2)]

(***************************************************************************)
(* The calls.  A call is idle, suspended at an await, or done.             *)
(***************************************************************************)
\* The value of a parser call that returns null.
NoExpense == [amount |-> 0, description |-> "", pattern |-> NULL, originalText |-> ""]

InitArg ==
    [kind |-> NULL, user |-> NULL, amount |-> 0, category |-> NULL,
     description |-> "", startedAt |-> 0, keywords |-> <<>>, config |-> <<>>,
     source |-> "manual", rawData |-> NULL]

InitLoc ==
    [cfg |-> DefaultUserConfig(NULL), i |-> 0, spent |-> <<>>,
     budget |-> <<>>, catAlerts |-> <<>>, pattern |-> <<>>,
     totalSpent |-> 0, hour |-> 0, category |-> NULL,
     failed |-> {}, detected |-> <<>>, emitBefore |-> <<>>,
     inserted |-> FALSE, overlapped |-> FALSE,
     dirRows |-> <<>>, dir |-> <<>>, desc |-> "", scores |-> <<>>, ci |-> 0,
     words |-> <<>>, wi |-> 0, best |-> NULL, categorized |-> FALSE,
     learned |-> {}, unread |-> {},
     calledAt |-> 0, floor |-> 0, sawLoadedAt |-> NEVER, dirVersion |-> 0,
     used |-> 0, fromCache |-> FALSE, wrote |-> 0, first |-> NoExpense,
     isExpense |-> FALSE, expenseData |-> NoExpense, shouldAlert |-> FALSE]

InitRet ==
    [alerts |-> <<>>, raised |-> FALSE, finishedAt |-> 0, category |-> NULL,
     updated |-> FALSE, expense |-> NoExpense, expenses |-> <<>>, reply |-> NULL]

InFlight(p) == pc[p] \notin {"idle", "done"}

\* The category checkAllAlerts is called with.
Cat(p) == IF arg[p].kind = "create" THEN loc[p].category ELSE arg[p].category

\* if (category && newExpenseAmount > 0) checkCategoryAlerts, then checkUnusualSpending
AfterBudget(p) ==
    IF Cat(p) # NULL /\ arg[p].amount > 0 THEN "cat_stats" ELSE "time_q"

\* A call takes the lowest free slot.
Free(p) == pc[p] = "idle" /\ \A q \in Slots : q < p => pc[q] # "idle"

\* No call is running or waiting to be collected.
Quiet == \A q \in Slots : pc[q] = "idle"

StartLoc(p, category) ==
    [q \in Slots |->
        IF q = p THEN [InitLoc EXCEPT !.overlapped = \E r \in Slots : InFlight(r),
                                      !.category = category]
        ELSE IF InFlight(q) THEN [loc[q] EXCEPT !.overlapped = TRUE]
        ELSE loc[q]]

\* A storage call of call p is rejected (connection lost, timeout, ...).
Fails(p, at) ==
    /\ pc[p] = at
    /\ failures < MaxFailures
    /\ failures' = failures + 1

Calm == UNCHANGED <<botVars, catVars, now, arg, ret, lastEmit, started, advances>>

(***************************************************************************)
(* checkAllAlerts(userPhone, newExpenseAmount, category), called directly. *)
(***************************************************************************)
CheckAllAlertsUpTo(p, users, amounts, cats, max) ==
    /\ Free(p)
    /\ started < max
    /\ \E u \in users, a \in amounts, c \in cats :
          arg' = [arg EXCEPT ![p] = [kind |-> "check", user |-> u, amount |-> a,
                                     category |-> c, description |-> "",
                                     startedAt |-> now, keywords |-> <<>>, config |-> <<>>,
                                     source |-> "manual", rawData |-> NULL]]
    /\ pc' = [pc EXCEPT ![p] = "cfg_select"]
    /\ loc' = StartLoc(p, NULL)
    /\ ret' = [ret EXCEPT ![p] = InitRet]
    /\ started' = started + 1
    /\ UNCHANGED <<botVars, catVars, now, transactions, user_config, sentAlerts, lastEmit, failures, advances>>

CheckAllAlertsOf(p, users, amounts, cats) ==
    CheckAllAlertsUpTo(p, users, amounts, cats, MaxCalls)

\* One call after the other.
StartCheckAllAlerts(p) ==
    Quiet /\ CheckAllAlertsOf(p, Users, Amounts, CategoryArgs)

(***************************************************************************)
(* getUserConfig: SELECT, and createDefaultUserConfig when there is no row.*)
(* A failure of either makes checkBudgetAlerts return [].                  *)
(***************************************************************************)
BudgetFailed(p) ==
    /\ loc' = [loc EXCEPT ![p].budget = <<>>, ![p].failed = @ \cup {"cfg"},
                          ![p].hour = HourOf(now)]
    /\ pc' = [pc EXCEPT ![p] = AfterBudget(p)]

GetUserConfigSelect(p) ==
    /\ pc[p] = "cfg_select"
    /\ \/ /\ SelectUserConfig(arg[p].user) = {}
          /\ pc' = [pc EXCEPT ![p] = "cfg_insert"]
          /\ UNCHANGED loc
       \/ /\ \E r \in SelectUserConfig(arg[p].user) :
                loc' = [loc EXCEPT ![p].cfg = r, ![p].i = 1]
          /\ pc' = [pc EXCEPT ![p] = "spent"]
    /\ UNCHANGED <<botVars, transactions, user_config, sentAlerts, failures>>
    /\ Calm

GetUserConfigFails(p) ==
    /\ \/ Fails(p, "cfg_select")
       \/ Fails(p, "cfg_insert")
    /\ BudgetFailed(p)
    /\ UNCHANGED <<botVars, transactions, user_config, sentAlerts>>
    /\ Calm

CreateDefaultUserConfig(p) ==
    /\ pc[p] = "cfg_insert"
    /\ \/ \* user_phone is UNIQUE: the INSERT of a second row is rejected
          /\ SelectUserConfig(arg[p].user) # {}
          /\ BudgetFailed(p)
          /\ UNCHANGED user_config
       \/ /\ SelectUserConfig(arg[p].user) = {}
          /\ user_config' = user_config \cup {DefaultUserConfig(arg[p].user)}
          /\ loc' = [loc EXCEPT ![p].cfg = DefaultUserConfig(arg[p].user), ![p].i = 1]
          /\ pc' = [pc EXCEPT ![p] = "spent"]
    /\ UNCHANGED <<botVars, transactions, sentAlerts, failures>>
    /\ Calm

(***************************************************************************)
(* checkBudgetAlerts: one getTotalSpent per period.  getTotalSpent catches *)
(* its own failure and returns 0.                                          *)
(***************************************************************************)
getTotalSpent(userPhone, interval) == SumAmount(RowsSince(userPhone, interval))

BudgetStep(p, spent, failed) ==
    LET i == loc[p].i IN
    /\ loc' = [loc EXCEPT
                 ![p].spent = Append(@, spent),
                 ![p].budget = @ \o PeriodAlerts(loc[p].cfg, i, spent, arg[p].amount),
                 ![p].i = i + 1,
                 ![p].failed = @ \cup failed,
                 ![p].hour = HourOf(now)]
    /\ pc' = [pc EXCEPT ![p] = IF i = 3 THEN AfterBudget(p) ELSE "spent"]

GetTotalSpent(p) ==
    /\ pc[p] = "spent"
    /\ BudgetStep(p, getTotalSpent(arg[p].user, periods(loc[p].cfg)[loc[p].i].interval), {})
    /\ UNCHANGED <<botVars, transactions, user_config, sentAlerts, failures>>
    /\ Calm

\* catch (error) { return 0; }
GetTotalSpentFails(p) ==
    /\ Fails(p, "spent")
    /\ BudgetStep(p, 0, {"spent"})
    /\ UNCHANGED <<botVars, transactions, user_config, sentAlerts>>
    /\ Calm

(***************************************************************************)
(* checkCategoryAlerts: the statistics query, then getCategorySpent, which *)
(* catches its own failure and returns 0.                                  *)
(***************************************************************************)
\* amount > avgAmount * 2.5, avgAmount = total / count
IsUnusualAmount(amount, count, total) == amount * count * 2 > total * 5

\* monthlySpent + amount > monthlyLimit, monthlyLimit = totalSpent * 1.5
OverCategoryLimit(monthlySpent, amount, totalSpent) ==
    (monthlySpent + amount) * 2 > totalSpent * 3

CategoryStats(p) ==
    /\ pc[p] = "cat_stats"
    /\    LET rows == RowsCategorySince(arg[p].user, Cat(p), 30 * DAY)
              count == Len(rows)
              total == SumAmount(rows)
          IN     IF count > 3
                 THEN /\ loc' = [loc EXCEPT
                            ![p].totalSpent = total,
                            ![p].catAlerts =
                                IF IsUnusualAmount(arg[p].amount, count, total)
                                THEN << Alert(UNUSUAL_SPENDING, MEDIUM, NULL, Cat(p), NULL, 0) >>
                                ELSE <<>>]
                      /\ pc' = [pc EXCEPT ![p] = "cat_spent"]
                 ELSE /\ loc' = [loc EXCEPT ![p].hour = HourOf(now)]
                      /\ pc' = [pc EXCEPT ![p] = "time_q"]
    /\ UNCHANGED <<botVars, transactions, user_config, sentAlerts, failures>>
    /\ Calm

\* catch (error) { return []; }
CategoryStatsFails(p) ==
    /\ Fails(p, "cat_stats")
    /\ loc' = [loc EXCEPT ![p].catAlerts = <<>>, ![p].failed = @ \cup {"cat_stats"},
                          ![p].hour = HourOf(now)]
    /\ pc' = [pc EXCEPT ![p] = "time_q"]
    /\ UNCHANGED <<botVars, transactions, user_config, sentAlerts>>
    /\ Calm

getCategorySpent(userPhone, category, interval) ==
    SumAmount(RowsCategorySince(userPhone, category, interval))

CategoryStep(p, monthlySpent, failed) ==
    /\ loc' = [loc EXCEPT
                 ![p].catAlerts =
                     IF OverCategoryLimit(monthlySpent, arg[p].amount, loc[p].totalSpent)
                     THEN Append(@, Alert(CATEGORY_LIMIT, HIGH, NULL, Cat(p), NULL, 0))
                     ELSE @,
                 ![p].failed = @ \cup failed,
                 ![p].hour = HourOf(now)]
    /\ pc' = [pc EXCEPT ![p] = "time_q"]

GetCategorySpent(p) ==
    /\ pc[p] = "cat_spent"
    /\ CategoryStep(p, getCategorySpent(arg[p].user, Cat(p), 30 * DAY), {})
    /\ UNCHANGED <<botVars, transactions, user_config, sentAlerts, failures>>
    /\ Calm

\* catch (error) { return 0; }
GetCategorySpentFails(p) ==
    /\ Fails(p, "cat_spent")
    /\ CategoryStep(p, 0, {"cat_spent"})
    /\ UNCHANGED <<botVars, transactions, user_config, sentAlerts>>
    /\ Calm

(***************************************************************************)
(* checkUnusualSpending: the hour-of-day query, then the 2-hour query.  A  *)
(* failure of either makes the detector return [].                         *)
(***************************************************************************)
PatternFailed(p, what) ==
    /\ loc' = [loc EXCEPT ![p].pattern = <<>>, ![p].failed = @ \cup {what}]
    /\ pc' = [pc EXCEPT ![p] = "finish"]

TimeQuery(p) ==
    /\ pc[p] = "time_q"
    /\    LET timeCount == Len(RowsAtHour(arg[p].user, loc[p].hour)) IN
          /\ loc' = [loc EXCEPT ![p].pattern =
                        IF timeCount < 2 /\ arg[p].amount > 100
                        THEN << Alert(SPENDING_PATTERN, LOW, NULL, NULL, "unusual_time", 0) >>
                        ELSE <<>>]
          /\ pc' = [pc EXCEPT ![p] = "recent_q"]
    /\ UNCHANGED <<botVars, transactions, user_config, sentAlerts, failures>>
    /\ Calm

RecentQuery(p) ==
    /\ pc[p] = "recent_q"
    /\    LET recentCount == Len(RowsSince(arg[p].user, 2 * HOUR)) IN
          /\ loc' = [loc EXCEPT ![p].pattern =
                        IF recentCount >= 5
                        THEN Append(@, Alert(SPENDING_PATTERN, MEDIUM, NULL, NULL,
                                             "frequent_spending", 0))
                        ELSE @]
          /\ pc' = [pc EXCEPT ![p] = "finish"]
    /\ UNCHANGED <<botVars, transactions, user_config, sentAlerts, failures>>
    /\ Calm

\* catch (error) { return []; }: the alert already pushed is dropped too
UnusualSpendingFails(p) ==
    /\ \/ /\ Fails(p, "time_q")
          /\ PatternFailed(p, "time_q")
       \/ /\ Fails(p, "recent_q")
          /\ PatternFailed(p, "recent_q")
    /\ UNCHANGED <<botVars, transactions, user_config, sentAlerts>>
    /\ Calm

(***************************************************************************)
(* The end of checkAllAlerts: filterRecentAlerts and registerSentAlerts    *)
(* run with no await between them, then the caller gets the filtered list. *)
(***************************************************************************)
\* What an alert is about: its type and its period or category.
Scope(alert) == <<alert.type, alert.period, alert.category>>
Scopes(alerts) == {Scope(alerts[i]) : i \in 1..Len(alerts)}

\* A spending_pattern alert is also remembered under its pattern.
PatternOf(alert) == <<alert.type, alert.period, alert.category, alert.pattern>>
Emitted(alerts) ==
    Scopes(alerts) \cup {PatternOf(alerts[i]) : i \in {j \in 1..Len(alerts) :
                                                          alerts[j].pattern # NULL}}

alertsToRegisterAll(alerts, filteredAlerts) == alerts

\* this.registerSentAlerts(userPhone, filteredAlerts)
alertsToRegister(alerts, filteredAlerts) == filteredAlerts

sentAlertsGetAny(userPhone) == sentAlerts["u1"] \o sentAlerts["u2"]

\* this.sentAlerts.get(`alerts_${userPhone}`) || []
sentAlertsGet(userPhone) == sentAlerts[userPhone]

FinishAlerts(p) ==
    LET u == arg[p].user
        alerts == loc[p].budget \o loc[p].catAlerts \o loc[p].pattern
        filteredAlerts == filterRecentAlerts(sentAlertsGet(u), alerts, now)
    IN
    /\ pc[p] = "finish"
    /\ sentAlerts' = [sentAlerts EXCEPT ![u] =
           registerSentAlerts(validSentAlerts(sentAlertsGet(u), now),
                              alertsToRegister(alerts, filteredAlerts), now)]
    /\ ret' = [ret EXCEPT ![p] = [InitRet EXCEPT !.alerts = filteredAlerts,
                                  !.finishedAt = now, !.category = Cat(p)]]
    /\ loc' = [loc EXCEPT ![p].detected = alerts, ![p].emitBefore = lastEmit[u]]
    /\ lastEmit' = [lastEmit EXCEPT ![u] =
           [k \in DOMAIN lastEmit[u] \cup Emitted(filteredAlerts) |->
               IF k \in Emitted(filteredAlerts) THEN now ELSE lastEmit[u][k]]]
    /\ pc' = [pc EXCEPT ![p] = "done"]
    /\ UNCHANGED <<botVars, catVars, now, transactions, user_config, arg, started, failures, advances>>

\* The caller takes the result; the slot is free for the next call.
Return(p) ==
    /\ pc[p] = "done"
    /\ pc' = [pc EXCEPT ![p] = "idle"]
    /\ arg' = [arg EXCEPT ![p] = InitArg]
    /\ loc' = [loc EXCEPT ![p] = InitLoc]
    /\ ret' = [ret EXCEPT ![p] = InitRet]
    /\ UNCHANGED <<botVars, catVars, now, transactions, user_config, sentAlerts, lastEmit, started,
                   failures, advances>>

(***************************************************************************)
(* categorizeExpense(description, userPhone).                              *)
(***************************************************************************)
categoriesCacheTimeout == 5 * 60

\* The rows of the user in the category in the last 90 days.
HistoryRows(userPhone, categoryName) ==
    {i \in 1..Len(transactions) :
        /\ transactions[i].user_phone = userPhone
        /\ transactions[i].category = categoryName
        /\ transactions[i].date >= now - 90 * DAY}

\* One group of GROUP BY description: frequency * similarity * 2 when the
\* similarity is above one half.
GroupScore(description, rowDescription, frequency) ==
    LET similarity == calculateSimilarity(description, toLowerCase(rowDescription)) IN
    IF 2 * similarity.intersection > similarity.union
    THEN (frequency * similarity.intersection * 2 * ScoreScale) \div similarity.union
    ELSE 0

\* Math.min(score, 20)
CapLearning(score) == IF score < LearningCap THEN score ELSE LearningCap

\* The model keeps fewer than the 20 groups of LIMIT 20.
calculateUserLearningScore(description, categoryName, userPhone) ==
    LET rows == HistoryRows(userPhone, categoryName)
        First(i) == \A j \in rows : j < i => transactions[j].description # transactions[i].description
        Frequency(i) == Cardinality({j \in rows : transactions[j].description = transactions[i].description})
    IN  CapLearning(SumSeq([i \in 1..Len(transactions) |->
            IF i \in rows /\ First(i)
            THEN GroupScore(description, transactions[i].description, Frequency(i))
            ELSE 0]))

\* The score of a category before the user's history is read.
StaticScore(description, category) ==
    ScoreScale * (calculateKeywordScore(description, category.keywords)
                  + calculateContextScore(description, category.name))

Score(name, score) == [category |-> name, score |-> score]

\* calculateCategoryScores when there is no user: no await in the loop.
StaticScores(description, dir) ==
    [i \in 1..Len(dir) |-> Score(dir[i].name, StaticScore(description, dir[i]))]

\* score >= maxScore: the last of the categories with the highest score
selectBestCategoryLast(scores) ==
    LET top == {i \in 1..Len(scores) :
                   /\ scores[i].score > Threshold
                   /\ \A j \in 1..Len(scores) : scores[j].score <= scores[i].score}
    IN  IF top = {} THEN "otros"
        ELSE scores[CHOOSE i \in top : \A j \in top : j <= i].category

selectBestCategoryInclusive(scores) ==
    LET top == {i \in 1..Len(scores) :
                   /\ scores[i].score >= Threshold
                   /\ \A j \in 1..Len(scores) : scores[j].score <= scores[i].score}
    IN  IF top = {} THEN "otros"
        ELSE scores[CHOOSE i \in top : \A j \in top : i <= j].category

RECURSIVE SelectFrom(_, _, _)
SelectFrom(scores, bestCategory, maxScore) ==
    IF scores = <<>> THEN bestCategory
    ELSE IF Head(scores).score > maxScore /\ Head(scores).score > Threshold
         THEN SelectFrom(Tail(scores), Head(scores).category, Head(scores).score)
         ELSE SelectFrom(Tail(scores), bestCategory, maxScore)

\* Object.entries(scores) is in the order the scores were stored.
selectBestCategory(scores) == SelectFrom(scores, "otros", 0)

\* description.split(' ').filter(word => word.length > 2)
LearnWords(description) == SelectSeq(split(description), LAMBDA w : Len(w) > 2)

\* !description
NoDescriptionNever(description) == FALSE

NoDescription(description) == description = ""

\* categorizeExpense returns bestCategory, to createTransaction or to its caller.
Leave(p, l, best) ==
    LET m == [l EXCEPT !.best = best, !.categorized = TRUE] IN
    IF arg[p].kind = "create"
    THEN /\ loc' = [loc EXCEPT ![p] = [m EXCEPT !.category = best]]
         /\ pc' = [pc EXCEPT ![p] = "insert"]
         /\ UNCHANGED ret
    ELSE /\ loc' = [loc EXCEPT ![p] = m]
         /\ ret' = [ret EXCEPT ![p] = [InitRet EXCEPT !.category = best,
                                                      !.finishedAt = now]]
         /\ pc' = [pc EXCEPT ![p] = "done"]

\* The scores are complete: selectBestCategory, then learnFromExpense if there
\* is a user and a category was found.
Selected(p, l) ==
    LET best == selectBestCategory(l.scores)
        words == LearnWords(l.desc)
    IN  IF arg[p].user # NULL /\ best # "otros" /\ words # <<>>
        THEN /\ loc' = [loc EXCEPT ![p] = [l EXCEPT !.best = best, !.words = words, !.wi = 1]]
             /\ pc' = [pc EXCEPT ![p] = "learn"]
             /\ UNCHANGED ret
        ELSE Leave(p, l, best)

\* getCategories returned dir: normalizeDescription and calculateCategoryScores
\* up to its first await.
Scoring(p, l0, dir) ==
    LET desc == normalizeDescription(arg[p].description)
        l == [l0 EXCEPT !.dir = dir, !.desc = desc]
    IN  IF arg[p].user = NULL \/ dir = <<>>
        THEN Selected(p, [l EXCEPT !.scores = StaticScores(desc, dir)])
        ELSE /\ loc' = [loc EXCEPT ![p] = [l EXCEPT !.ci = 1]]
             /\ pc' = [pc EXCEPT ![p] = "history"]
             /\ UNCHANGED ret

\* History of the directory: the number of UPDATEs the table has seen
\* (version), the version of the rows in the cache and when they were put
\* there, the latest version whose updateCategoryKeywords has returned, and
\* the number of updates started.
InitCacheLog ==
    [version |-> 0, cached |-> NEVER, loadedAt |-> NEVER, completed |-> 0, updates |-> 0]

\* Date.now() <= this.cacheExpiration
CacheValidInclusive ==
    categoriesCache # <<>> /\ cacheExpiration # 0 /\ now <= cacheExpiration

CacheValid ==
    categoriesCache # <<>> /\ cacheExpiration # 0 /\ now < cacheExpiration

\* The call, up to its first await.
CategorizeExpense(p) ==
    /\ pc[p] = "categorize"
    /\ LET l == [loc[p] EXCEPT !.calledAt = now, !.floor = cacheLog.completed,
                               !.sawLoadedAt = cacheLog.loadedAt]
       IN  IF NoDescription(arg[p].description) THEN Leave(p, loc[p], "otros")
           ELSE IF CacheValid
                THEN Scoring(p, [l EXCEPT !.fromCache = TRUE, !.used = cacheLog.cached],
                             categoriesCache[1])
           ELSE /\ pc' = [pc EXCEPT ![p] = "dir_query"]
                /\ loc' = [loc EXCEPT ![p] = l]
                /\ UNCHANGED ret
    /\ UNCHANGED <<botVars, catVars, now, transactions, user_config, sentAlerts, arg, lastEmit,
                   started, failures, advances>>

\* SELECT * FROM categories ORDER BY name is executed.
CategoriesQuery(p) ==
    /\ pc[p] = "dir_query"
    /\ loc' = [loc EXCEPT ![p].dirRows = categories, ![p].dirVersion = cacheLog.version]
    /\ pc' = [pc EXCEPT ![p] = "dir_result"]
    /\ UNCHANGED <<botVars, catVars, now, transactions, user_config, sentAlerts, arg, ret, lastEmit,
                   started, failures, advances>>

\* getCategories resumes with the rows and fills the cache.
CategoriesResult(p) ==
    /\ pc[p] = "dir_result"
    /\ categoriesCache' = <<loc[p].dirRows>>
    /\ cacheExpiration' = now + categoriesCacheTimeout
    /\ cacheLog' = [cacheLog EXCEPT !.cached = loc[p].dirVersion, !.loadedAt = now]
    /\ Scoring(p, [loc[p] EXCEPT !.used = loc[p].dirVersion], loc[p].dirRows)
    /\ UNCHANGED <<botVars, categories, now, transactions, user_config, sentAlerts, arg, lastEmit,
                   started, failures, advances>>

\* What getCategories returns when its query failed.
CategoriesOnErrorCached == IF categoriesCache # <<>> THEN categoriesCache[1] ELSE <<>>

CategoriesOnError == <<>>

CategoriesQueryFails(p) ==
    /\ Fails(p, "dir_query")
    /\ Scoring(p, [loc[p] EXCEPT !.failed = @ \cup {"dir"}], CategoriesOnError)
    /\ UNCHANGED <<botVars, catVars, now, transactions, user_config, sentAlerts, arg, lastEmit,
                   started, advances>>

\* One pass of the loop of calculateCategoryScores for a user: the score of
\* category ci is stored, and the loop goes on to its next await or ends.
HistoryStep(p, learning, failed) ==
    LET i == loc[p].ci
        category == loc[p].dir[i]
        l == [loc[p] EXCEPT
                 !.scores = Append(@, Score(category.name,
                                StaticScore(loc[p].desc, category) + learning)),
                 !.ci = i + 1,
                 !.failed = @ \cup failed,
                 !.unread = IF failed = {} THEN @ ELSE @ \cup {category.name}]
    IN  IF i < Len(loc[p].dir)
        THEN /\ loc' = [loc EXCEPT ![p] = l]
             /\ UNCHANGED <<botVars, pc, ret>>
        ELSE Selected(p, l)

\* calculateUserLearningScore: the query of the user's history in the category.
UserHistoryQuery(p) ==
    /\ pc[p] = "history"
    /\ HistoryStep(p, calculateUserLearningScore(loc[p].desc,
                          loc[p].dir[loc[p].ci].name, arg[p].user), {})
    /\ UNCHANGED <<botVars, catVars, now, transactions, user_config, sentAlerts, arg, lastEmit,
                   started, failures, advances>>

\* catch (error) { return 0; }
UserHistoryQueryFails(p) ==
    /\ Fails(p, "history")
    /\ HistoryStep(p, 0, {"history"})
    /\ UNCHANGED <<botVars, catVars, now, transactions, user_config, sentAlerts, arg, lastEmit,
                   started, advances>>

\* SELECT COUNT(*) ... LOWER(description) LIKE '%word%', the last 30 days
WordFrequency(userPhone, category, word) ==
    Cardinality({i \in 1..Len(transactions) :
        /\ transactions[i].user_phone = userPhone
        /\ transactions[i].category = category
        /\ includes(toLowerCase(transactions[i].description), word)
        /\ transactions[i].date >= now - 30 * DAY})

\* The keyword is appended to the keywords of the category.
addUserKeywordStored(table, userPhone, category, word) ==
    [i \in 1..Len(table) |->
        IF table[i].name = category
        THEN [table[i] EXCEPT !.keywords = Append(@, word)] ELSE table[i]]

\* addUserKeyword only writes a log line: the table is as it was.
addUserKeyword(table, userPhone, category, word) == table

\* One pass of the loop of learnFromExpense.
LearnQuery(p) ==
    LET i == loc[p].wi
        word == loc[p].words[i]
        l == [loc[p] EXCEPT
                 !.wi = i + 1,
                 !.learned = IF WordFrequency(arg[p].user, loc[p].best, word) >= 3
                             THEN @ \cup {word} ELSE @]
    IN
    /\ pc[p] = "learn"
    /\ IF i < Len(loc[p].words)
       THEN /\ loc' = [loc EXCEPT ![p] = l]
            /\ UNCHANGED <<botVars, pc, ret>>
       ELSE Leave(p, l, loc[p].best)
    /\ categories' = IF WordFrequency(arg[p].user, loc[p].best, word) >= 3
                     THEN addUserKeyword(categories, arg[p].user, loc[p].best, word)
                     ELSE categories
    /\ UNCHANGED <<botVars, categoriesCache, cacheExpiration, cacheLog, now, transactions,
                   user_config, sentAlerts, arg, lastEmit, started, failures, advances>>

\* catch (error): learnFromExpense ends, categorizeExpense returns bestCategory
LearnQueryFails(p) ==
    /\ Fails(p, "learn")
    /\ Leave(p, [loc[p] EXCEPT !.failed = @ \cup {"learn"}], loc[p].best)
    /\ UNCHANGED <<botVars, catVars, now, transactions, user_config, sentAlerts, arg, lastEmit,
                   started, advances>>

\* categorizeExpense called on its own.
CategorizeUsers == {NULL, "u1"}
CategorizeDescriptions == {"", "Tacos!", "farmacia restaurante", "ver regalo juan", "regalo juan"}

CategorizeExpenseOf(p, users, descriptions) ==
    /\ Free(p)
    /\ started < MaxCalls
    /\ \E u \in users, d \in descriptions :
          arg' = [arg EXCEPT ![p] = [kind |-> "categorize", user |-> u, amount |-> 0,
                                     category |-> NULL, description |-> d,
                                     startedAt |-> now, keywords |-> <<>>, config |-> <<>>,
                                     source |-> "manual", rawData |-> NULL]]
    /\ pc' = [pc EXCEPT ![p] = "categorize"]
    /\ loc' = StartLoc(p, NULL)
    /\ ret' = [ret EXCEPT ![p] = InitRet]
    /\ started' = started + 1
    /\ UNCHANGED <<botVars, catVars, now, transactions, user_config, sentAlerts, lastEmit,
                   failures, advances>>

StartCategorizeExpense(p) ==
    Quiet /\ CategorizeExpenseOf(p, CategorizeUsers, CategorizeDescriptions)

(***************************************************************************)
(* updateCategoryKeywords(categoryName, newKeywords) and clearCache.       *)
(***************************************************************************)
MaxUpdates == 1

UpdateArgs == {[category |-> "compras", keywords |-> <<"regalo">>]}

StartUpdateCategoryKeywords(p) ==
    /\ Free(p)
    /\ cacheLog.updates < MaxUpdates
    /\ \E u \in UpdateArgs :
          arg' = [arg EXCEPT ![p] = [InitArg EXCEPT !.kind = "update",
                                        !.category = u.category,
                                        !.keywords = u.keywords,
                                        !.startedAt = now]]
    /\ pc' = [pc EXCEPT ![p] = "update"]
    /\ loc' = StartLoc(p, NULL)
    /\ ret' = [ret EXCEPT ![p] = InitRet]
    /\ cacheLog' = [cacheLog EXCEPT !.updates = @ + 1]
    /\ UNCHANGED <<botVars, categories, categoriesCache, cacheExpiration, now, transactions,
                   user_config, sentAlerts, lastEmit, started, failures, advances>>

\* UPDATE categories SET keywords = $1 WHERE name = $2 is executed.
UpdateKeywords(table, categoryName, newKeywords) ==
    [i \in 1..Len(table) |->
        IF table[i].name = categoryName
        THEN Category(categoryName, newKeywords) ELSE table[i]]

UpdateQuery(p) ==
    /\ pc[p] = "update"
    /\ categories' = UpdateKeywords(categories, arg[p].category, arg[p].keywords)
    /\ cacheLog' = [cacheLog EXCEPT !.version = @ + 1]
    /\ loc' = [loc EXCEPT ![p].wrote = cacheLog.version + 1]
    /\ pc' = [pc EXCEPT ![p] = "updated"]
    /\ UNCHANGED <<botVars, categoriesCache, cacheExpiration, now, transactions, user_config,
                   sentAlerts, arg, ret, lastEmit, started, failures, advances>>

\* The UPDATE has returned: this.clearCache(); return true
UpdateResult(p) ==
    /\ pc[p] = "updated"
    /\ categoriesCache' = <<>>
    /\ cacheExpiration' = 0
    /\ cacheLog' = [cacheLog EXCEPT !.cached = NEVER, !.loadedAt = NEVER,
                                    !.completed = IF loc[p].wrote > @ THEN loc[p].wrote ELSE @]
    /\ ret' = [ret EXCEPT ![p] = [InitRet EXCEPT !.finishedAt = now, !.updated = TRUE]]
    /\ pc' = [pc EXCEPT ![p] = "done"]
    /\ UNCHANGED <<botVars, categories, now, transactions, user_config, sentAlerts, arg, loc,
                   lastEmit, started, failures, advances>>

\* catch (error) { return false; }: the cache stays as it is
UpdateQueryFails(p) ==
    /\ Fails(p, "update")
    /\ ret' = [ret EXCEPT ![p] = [InitRet EXCEPT !.finishedAt = now]]
    /\ pc' = [pc EXCEPT ![p] = "done"]
    /\ UNCHANGED <<botVars, catVars, now, transactions, user_config, sentAlerts, arg, loc,
                   lastEmit, started, advances>>

(***************************************************************************)
(* createTransaction(userPhone, amount, description, category): the INSERT *)
(* and then checkAllAlerts.  A failed INSERT is thrown to the caller.      *)
(***************************************************************************)
ExplicitCategories == {"comida", "viajes"}
DescriptionArgs == {"x"}

Row(userPhone, amount, description, category, date) ==
    [user_phone |-> userPhone, amount |-> amount, description |-> description,
     category |-> category, date |-> date]

CreateTransactionOf(p, users, amounts, descriptions, cats) ==
    /\ Free(p)
    /\ started < MaxCalls
    /\ \E u \in users, a \in amounts, c \in cats, d \in descriptions :
          /\ arg' = [arg EXCEPT ![p] = [kind |-> "create", user |-> u, amount |-> a,
                                        category |-> c, description |-> d,
                                        startedAt |-> now, keywords |-> <<>>, config |-> <<>>,
                                        source |-> "manual", rawData |-> NULL]]
          /\ loc' = StartLoc(p, c)
          \* const categorizedCategory = category || await categorizeExpense(...)
          /\ pc' = [pc EXCEPT ![p] = IF c # NULL THEN "insert" ELSE "categorize"]
    /\ ret' = [ret EXCEPT ![p] = InitRet]
    /\ started' = started + 1
    /\ UNCHANGED <<botVars, catVars, now, transactions, user_config, sentAlerts, lastEmit, failures, advances>>

StartCreateTransaction(p) ==
    Quiet /\ CreateTransactionOf(p, Users, Amounts, DescriptionArgs, ExplicitCategories)

InsertTransaction(p) ==
    /\ pc[p] = "insert"
    /\    /\ transactions' = Append(transactions,
                 Row(arg[p].user, arg[p].amount, arg[p].description, loc[p].category, now))
          /\ loc' = [loc EXCEPT ![p].inserted = TRUE]
          /\ pc' = [pc EXCEPT ![p] = "cfg_select"]
    /\ UNCHANGED <<botVars, catVars, now, user_config, sentAlerts, arg, ret, lastEmit, started,
                   failures, advances>>

\* catch (error) { throw error; }
InsertTransactionFails(p) ==
    /\ Fails(p, "insert")
    /\ ret' = [ret EXCEPT ![p] = [InitRet EXCEPT !.raised = TRUE, !.finishedAt = now]]
    /\ pc' = [pc EXCEPT ![p] = "done"]
    /\ UNCHANGED <<botVars, catVars, now, transactions, user_config, sentAlerts, arg, loc, lastEmit,
                   started, advances>>

(***************************************************************************)
(* The bot's connection (bot/whatsapp.js): initialize() creates a socket,  *)
(* and the connection.update handler of the socket counts the reconnection *)
(* attempts.  A socket reports 'open' at most once and 'close' once.       *)
(***************************************************************************)
maxReconnectAttempts == 5
ReconnectDelay == 5000
MaxEvents == 9

\* lastDisconnect?.error?.output?.statusCode
StatusCodes == {"loggedOut", "connectionLost", "restartRequired"}

NoClose == [statusCode |-> NULL, attempts |-> 0, scheduled |-> FALSE, delay |-> 0,
            sinceOpen |-> 0]

InitBot ==
    /\ isConnected = FALSE
    /\ reconnectAttempts = 0
    /\ sock = NULL
    /\ timers = {}
    /\ events = 0
    /\ closeLog = NoClose

\* shouldReconnect && this.reconnectAttempts <= this.maxReconnectAttempts
CanReconnectInclusive(statusCode, attempts) ==
    statusCode # "loggedOut" /\ attempts <= maxReconnectAttempts

\* shouldReconnect && this.reconnectAttempts < this.maxReconnectAttempts
CanReconnect(statusCode, attempts) ==
    statusCode # "loggedOut" /\ attempts < maxReconnectAttempts

BotCalm ==
    UNCHANGED <<catVars, now, transactions, user_config, sentAlerts, pc, arg, loc, ret,
                lastEmit, started, failures, advances>>

\* initialize(): this.sock = makeWASocket(...) and the handlers are bound to it.
Initialize ==
    /\ sock = NULL
    /\ sock' = "connecting"
    /\ UNCHANGED <<isConnected, reconnectAttempts, timers, events, closeLog>>
    /\ BotCalm

\* A timer of the handler expires: this.initialize() replaces the socket, or
\* throws before it has made one.
Reinitialize ==
    \E delay \in timers :
       /\ timers' = timers \ {delay}
       /\ \/ sock' = "connecting"
          \/ UNCHANGED sock
       /\ UNCHANGED <<isConnected, reconnectAttempts, events, closeLog>>
       /\ BotCalm

\* connection.update with connection === 'open'
ConnectionOpen ==
    /\ sock = "connecting"
    /\ events < MaxEvents
    /\ sock' = "open"
    /\ isConnected' = TRUE
    /\ reconnectAttempts' = 0
    /\ events' = events + 1
    /\ closeLog' = [closeLog EXCEPT !.sinceOpen = 0]
    /\ UNCHANGED timers
    /\ BotCalm

\* connection.update with connection === 'close'
ConnectionClose ==
    /\ sock \in {"connecting", "open"}
    /\ events < MaxEvents
    /\ sock' = "close"
    /\ events' = events + 1
    /\ \E statusCode \in StatusCodes :
          IF CanReconnect(statusCode, reconnectAttempts)
          THEN /\ reconnectAttempts' = reconnectAttempts + 1
               /\ timers' = timers \cup {ReconnectDelay * (reconnectAttempts + 1)}
               /\ closeLog' = [statusCode |-> statusCode, attempts |-> reconnectAttempts,
                               scheduled |-> TRUE,
                               delay |-> ReconnectDelay * (reconnectAttempts + 1),
                               sinceOpen |-> closeLog.sinceOpen + 1]
               /\ UNCHANGED isConnected
          ELSE /\ isConnected' = FALSE
               /\ closeLog' = [statusCode |-> statusCode, attempts |-> reconnectAttempts,
                               scheduled |-> FALSE, delay |-> 0,
                               sinceOpen |-> closeLog.sinceOpen]
               /\ UNCHANGED <<reconnectAttempts, timers>>
    /\ BotCalm

(***************************************************************************)
(* Time passes.                                                            *)
(***************************************************************************)
Tick ==
    /\ advances < MaxAdvances
    /\ \E d \in TimeSteps : now' = now + d
    /\ advances' = advances + 1
    /\ UNCHANGED <<botVars, transactions, user_config, sentAlerts, pc, arg, loc, ret,
                   lastEmit, started, failures>>
    /\ UNCHANGED catVars

\* Between two calls.
Advance == Quiet /\ Tick

(***************************************************************************)
(* The initial tables: no rows, or one of the histories below.             *)
(***************************************************************************)
RECURSIVE Repeat(_, _)
Repeat(row, n) == IF n = 0 THEN <<>> ELSE <<row>> \o Repeat(row, n - 1)

Histories ==
    { <<>>,
      \* u1 has four purchases of food two days ago, u2 one purchase
      Repeat(Row("u1", 10, "x", "comida", T0 - 2 * DAY), 4)
         \o << Row("u2", 70, "x", "comida", T0 - 2 * DAY) >>,
      \* u1 has five purchases in the last minutes
      Repeat(Row("u1", 10, "x", "otros", T0 - MINUTE), 5) }

\* u2 has set limits; u1 has no row yet.
InitialUserConfig ==
    { [user_phone |-> "u2", daily_limit |-> 100, weekly_limit |-> 150,
       monthly_limit |-> 200, thresholds_is_array |-> TRUE,
       alert_thresholds |-> <<70, 90>>] }

Init ==
    /\ now = T0
    /\ transactions \in Histories
    /\ user_config = InitialUserConfig
    /\ sentAlerts = [u \in Users |-> <<>>]
    /\ pc = [p \in Slots |-> "idle"]
    /\ arg = [p \in Slots |-> InitArg]
    /\ loc = [p \in Slots |-> InitLoc]
    /\ ret = [p \in Slots |-> InitRet]
    /\ lastEmit = [u \in Users |-> <<>>]
    /\ started = 0
    /\ failures = 0
    /\ advances = 0
    /\ categories = SeedCategories
    /\ categoriesCache = <<>>
    /\ cacheExpiration = 0
    /\ cacheLog = InitCacheLog
    /\ InitBot

Step(p) ==
    \/ StartCheckAllAlerts(p)
    \/ StartCreateTransaction(p)
    \/ InsertTransaction(p)
    \/ GetUserConfigSelect(p)
    \/ CreateDefaultUserConfig(p)
    \/ GetTotalSpent(p)
    \/ CategoryStats(p)
    \/ GetCategorySpent(p)
    \/ TimeQuery(p)
    \/ RecentQuery(p)
    \/ FinishAlerts(p)
    \/ Return(p)

\* The storage rejects a call.
Fault(p) ==
    \/ GetUserConfigFails(p)
    \/ GetTotalSpentFails(p)
    \/ CategoryStatsFails(p)
    \/ GetCategorySpentFails(p)
    \/ UnusualSpendingFails(p)
    \/ InsertTransactionFails(p)

Next == Advance \/ \E p \in Slots : Step(p)

\* Calls against a storage that may reject a call.
FaultyAmounts == {70, 150}

StartFaultyCheck(p) ==
    Quiet /\ CheckAllAlertsOf(p, {"u1"}, FaultyAmounts, {"comida"})

StartFaultyCreate(p) ==
    Quiet /\ CreateTransactionOf(p, {"u1"}, {150}, DescriptionArgs, {"comida"})

NextFaulty ==
    \/ Advance
    \/ \E p \in Slots :
          \/ StartFaultyCheck(p)
          \/ StartFaultyCreate(p)
          \/ InsertTransaction(p)
          \/ GetUserConfigSelect(p)
          \/ CreateDefaultUserConfig(p)
          \/ GetTotalSpent(p)
          \/ CategoryStats(p)
          \/ GetCategorySpent(p)
          \/ TimeQuery(p)
          \/ RecentQuery(p)
          \/ FinishAlerts(p)
          \/ Return(p)
          \/ Fault(p)

Spec == Init /\ [][Next]_vars

SpecFaulty == Init /\ [][NextFaulty]_vars

(***************************************************************************)
(* Concurrent evaluations: calls overlap at their awaits, and time passes  *)
(* while they run.                                                         *)
(***************************************************************************)
ConcurrentAmounts == {70, 150}

StartConcurrentCheck(p) == CheckAllAlertsOf(p, Users, ConcurrentAmounts, {NULL})

NextConcurrent ==
    \/ Tick
    \/ \E p \in Slots :
          \/ StartConcurrentCheck(p)
          \/ GetUserConfigSelect(p)
          \/ CreateDefaultUserConfig(p)
          \/ GetTotalSpent(p)
          \/ TimeQuery(p)
          \/ RecentQuery(p)
          \/ FinishAlerts(p)
          \/ Return(p)

SpecConcurrent == Init /\ [][NextConcurrent]_vars

(***************************************************************************)
(* One new user asks three times, one call after the other, with an amount *)
(* that puts the daily budget in the 70% band every time.                  *)
(***************************************************************************)
MaxAttempts == 3

StartAttempt(p) == Quiet /\ CheckAllAlertsUpTo(p, {"u1"}, {70}, {NULL}, MaxAttempts)

InitAttempts == Init /\ transactions = <<>>

NextAttempts ==
    \/ Advance
    \/ \E p \in Slots :
          \/ StartAttempt(p)
          \/ GetUserConfigSelect(p)
          \/ CreateDefaultUserConfig(p)
          \/ GetTotalSpent(p)
          \/ TimeQuery(p)
          \/ RecentQuery(p)
          \/ FinishAlerts(p)
          \/ Return(p)

SpecAttempts == InitAttempts /\ [][NextAttempts]_vars

(***************************************************************************)
(* updateUserConfig(userPhone, { alert_thresholds }): the UPDATE, and when *)
(* it touched no row createDefaultUserConfig and the UPDATE again.  Then   *)
(* evaluations for a user whose list of thresholds was configured.         *)
(***************************************************************************)
ThresholdArgs == {<<70, 75>>, <<70, 90>>, <<50, 60>>}
ThresholdAmounts == {20, 76, 95}

UpdateUserConfigOf(p, users, lists) ==
    /\ Free(p)
    /\ started < MaxCalls
    /\ \E u \in users, thresholds \in lists :
          arg' = [arg EXCEPT ![p] = [InitArg EXCEPT !.kind = "config", !.user = u,
                                                    !.startedAt = now,
                                                    !.config = thresholds]]
    /\ pc' = [pc EXCEPT ![p] = "ucfg_update"]
    /\ loc' = StartLoc(p, NULL)
    /\ ret' = [ret EXCEPT ![p] = InitRet]
    /\ started' = started + 1
    /\ UNCHANGED <<botVars, catVars, now, transactions, user_config, sentAlerts, lastEmit, failures, advances>>

StartUpdateUserConfig(p) == Quiet /\ UpdateUserConfigOf(p, {"u1"}, ThresholdArgs)

\* UPDATE user_config SET alert_thresholds = $1 WHERE user_phone = $2 RETURNING *
SetThresholds(table, userPhone, thresholds) ==
    {IF r.user_phone = userPhone
     THEN [r EXCEPT !.alert_thresholds = thresholds, !.thresholds_is_array = TRUE]
     ELSE r : r \in table}

UpdateUserConfigQuery(p) ==
    /\ pc[p] = "ucfg_update"
    /\ IF SelectUserConfig(arg[p].user) = {}
       THEN /\ pc' = [pc EXCEPT ![p] = "ucfg_insert"]
            /\ UNCHANGED <<botVars, user_config, ret>>
       ELSE /\ user_config' = SetThresholds(user_config, arg[p].user, arg[p].config)
            /\ ret' = [ret EXCEPT ![p] = [InitRet EXCEPT !.updated = TRUE,
                                                         !.finishedAt = now]]
            /\ pc' = [pc EXCEPT ![p] = "done"]
    /\ UNCHANGED <<botVars, catVars, now, transactions, sentAlerts, arg, loc, lastEmit, started,
                   failures, advances>>

\* await createDefaultUserConfig(userPhone); return await updateUserConfig(...)
UpdateCreateDefault(p) ==
    /\ pc[p] = "ucfg_insert"
    /\ IF SelectUserConfig(arg[p].user) # {}
       THEN \* user_phone is UNIQUE: the error is thrown to the caller
            /\ ret' = [ret EXCEPT ![p] = [InitRet EXCEPT !.raised = TRUE,
                                                         !.finishedAt = now]]
            /\ pc' = [pc EXCEPT ![p] = "done"]
            /\ UNCHANGED user_config
       ELSE /\ user_config' = user_config \cup {DefaultUserConfig(arg[p].user)}
            /\ pc' = [pc EXCEPT ![p] = "ucfg_update"]
            /\ UNCHANGED ret
    /\ UNCHANGED <<botVars, catVars, now, transactions, sentAlerts, arg, loc, lastEmit, started,
                   failures, advances>>

StartThresholdCheck(p) ==
    Quiet /\ CheckAllAlertsOf(p, {"u1"}, ThresholdAmounts, {NULL})

InitThresholds == Init /\ transactions = <<>>

NextThresholds ==
    \E p \in Slots :
       \/ StartUpdateUserConfig(p)
       \/ UpdateUserConfigQuery(p)
       \/ UpdateCreateDefault(p)
       \/ StartThresholdCheck(p)
       \/ GetUserConfigSelect(p)
       \/ CreateDefaultUserConfig(p)
       \/ GetTotalSpent(p)
       \/ TimeQuery(p)
       \/ RecentQuery(p)
       \/ FinishAlerts(p)
       \/ Return(p)

SpecThresholds == InitThresholds /\ [][NextThresholds]_vars

(***************************************************************************)
(* The category and pattern detectors: evaluations and registrations of    *)
(* one user, one after the other, over histories that sit at the edge of   *)
(* the detectors' conditions.                                              *)
(***************************************************************************)
DetectorHistories ==
    { <<>>,
      \* three purchases of food two days ago
      Repeat(Row("u1", 10, "x", "comida", T0 - 2 * DAY), 3),
      \* four purchases of food two days ago
      Repeat(Row("u1", 10, "x", "comida", T0 - 2 * DAY), 4),
      \* four purchases in the last minutes
      Repeat(Row("u1", 10, "x", "otros", T0 - MINUTE), 4) }

DetectorAmounts == {30, 150}

StartDetectorCheck(p) ==
    Quiet /\ CheckAllAlertsOf(p, {"u1"}, DetectorAmounts, CategoryArgs)

StartDetectorCreate(p) ==
    Quiet /\ CreateTransactionOf(p, {"u1"}, DetectorAmounts, DescriptionArgs, {"comida"})

InitDetectors ==
    /\ now = T0
    /\ transactions \in DetectorHistories
    /\ user_config = InitialUserConfig
    /\ sentAlerts = [u \in Users |-> <<>>]
    /\ pc = [p \in Slots |-> "idle"]
    /\ arg = [p \in Slots |-> InitArg]
    /\ loc = [p \in Slots |-> InitLoc]
    /\ ret = [p \in Slots |-> InitRet]
    /\ lastEmit = [u \in Users |-> <<>>]
    /\ started = 0
    /\ failures = 0
    /\ advances = 0
    /\ categories = SeedCategories
    /\ categoriesCache = <<>>
    /\ cacheExpiration = 0
    /\ cacheLog = InitCacheLog
    /\ InitBot

NextDetectors ==
    \/ Advance
    \/ \E p \in Slots :
          \/ StartDetectorCheck(p)
          \/ StartDetectorCreate(p)
          \/ InsertTransaction(p)
          \/ GetUserConfigSelect(p)
          \/ CreateDefaultUserConfig(p)
          \/ GetTotalSpent(p)
          \/ CategoryStats(p)
          \/ GetCategorySpent(p)
          \/ TimeQuery(p)
          \/ RecentQuery(p)
          \/ FinishAlerts(p)
          \/ Return(p)

SpecDetectors == InitDetectors /\ [][NextDetectors]_vars

(***************************************************************************)
(* The categorizer: calls of categorizeExpense, and of createTransaction   *)
(* with and without a category, one after the other.                       *)
(***************************************************************************)
CatHistories ==
    { <<>>,
      \* u1 has registered the same present four times; it went to 'otros'
      Repeat(Row("u1", 10, "Regalo Juan", "otros", T0 - DAY), 4),
      \* u1 has bought tacos three times
      Repeat(Row("u1", 10, "tacos", "comida", T0 - DAY), 3) }

InitCat ==
    /\ now = T0
    /\ transactions \in CatHistories
    /\ user_config = InitialUserConfig
    /\ sentAlerts = [u \in Users |-> <<>>]
    /\ pc = [p \in Slots |-> "idle"]
    /\ arg = [p \in Slots |-> InitArg]
    /\ loc = [p \in Slots |-> InitLoc]
    /\ ret = [p \in Slots |-> InitRet]
    /\ lastEmit = [u \in Users |-> <<>>]
    /\ started = 0
    /\ failures = 0
    /\ advances = 0
    /\ categories = SeedCategories
    /\ categoriesCache = <<>>
    /\ cacheExpiration = 0
    /\ cacheLog = InitCacheLog
    /\ InitBot

\* registerExpense passes no category; another caller may pass any string.
StartCreateUncategorized(p) ==
    Quiet /\ CreateTransactionOf(p, {"u1"}, {20}, {"Tacos!", "regalo juan"}, {NULL, "viajes"})

Categorizing(p) ==
    \/ CategorizeExpense(p)
    \/ CategoriesQuery(p)
    \/ CategoriesResult(p)
    \/ UserHistoryQuery(p)
    \/ LearnQuery(p)

NextCat ==
    \/ Advance
    \/ \E p \in Slots :
          \/ StartCategorizeExpense(p)
          \/ StartCreateUncategorized(p)
          \/ Categorizing(p)
          \/ InsertTransaction(p)
          \/ GetUserConfigSelect(p)
          \/ CreateDefaultUserConfig(p)
          \/ GetTotalSpent(p)
          \/ CategoryStats(p)
          \/ GetCategorySpent(p)
          \/ TimeQuery(p)
          \/ RecentQuery(p)
          \/ FinishAlerts(p)
          \/ Return(p)

SpecCat == InitCat /\ [][NextCat]_vars

\* categorizeExpense on descriptions at the edge of the selection: a single
\* partial match, blanks, punctuation.
EdgeDescriptions == {"taco", "Tacos!", " ", "?!", "farmacia restaurante"}

StartCategorizeEdge(p) ==
    Quiet /\ CategorizeExpenseOf(p, CategorizeUsers, EdgeDescriptions)

NextEdge ==
    \E p \in Slots :
       \/ StartCategorizeEdge(p)
       \/ Categorizing(p)
       \/ Return(p)

SpecEdge == InitCat /\ [][NextEdge]_vars

\* categorizeExpense against a storage that may reject a read.
NextCatFaulty ==
    \/ Advance
    \/ \E p \in Slots :
          \/ StartCategorizeExpense(p)
          \/ Categorizing(p)
          \/ CategoriesQueryFails(p)
          \/ UserHistoryQueryFails(p)
          \/ LearnQueryFails(p)
          \/ Return(p)

SpecCatFaulty == InitCat /\ [][NextCatFaulty]_vars

(***************************************************************************)
(* The directory cache: calls of categorizeExpense without a user and      *)
(* updates of the keywords overlap, and time passes while they run.        *)
(***************************************************************************)
CacheSteps == {categoriesCacheTimeout, 1}

TickCache ==
    /\ advances < MaxAdvances
    /\ \E d \in CacheSteps : now' = now + d
    /\ advances' = advances + 1
    /\ UNCHANGED <<botVars, transactions, user_config, sentAlerts, pc, arg, loc, ret,
                   lastEmit, started, failures>>
    /\ UNCHANGED catVars

StartCachedCategorize(p) == CategorizeExpenseOf(p, {NULL}, {"regalo"})

NextCache ==
    \/ TickCache
    \/ \E p \in Slots :
          \/ StartCachedCategorize(p)
          \/ CategorizeExpense(p)
          \/ CategoriesQuery(p)
          \/ CategoriesResult(p)
          \/ StartUpdateCategoryKeywords(p)
          \/ UpdateQuery(p)
          \/ UpdateResult(p)
          \/ UpdateQueryFails(p)
          \/ Return(p)

SpecCache == InitCat /\ [][NextCache]_vars

(***************************************************************************)
(* Regular expressions, matched as the JavaScript engine matches them: by  *)
(* backtracking, the leftmost start first, alternatives in the order       *)
(* written, greedy repetitions longest first and lazy ones shortest first. *)
(* A pattern is a sequence of nodes; the engine takes, node after node,    *)
(* the first of the node's ways to match from which the rest of the        *)
(* pattern can still match.                                                *)
(***************************************************************************)
Alt(alts) == [kind |-> "alt", alts |-> alts]
Rep(class, min, max, greedy) ==
    [kind |-> "rep", class |-> class, min |-> min, max |-> max, greedy |-> greedy]
Opt(sub) == [kind |-> "opt", sub |-> sub]
Group(g, sub) == <<[kind |-> "open", g |-> g]>> \o sub \o <<[kind |-> "close", g |-> g]>>
Bol == [kind |-> "bol"]
Eol == [kind |-> "eol"]

Digits == {CharAt("0123456789", i) : i \in 1..10}

\* \d, \s, [.,], [$pesos\s] and the dot
InClass(c, class) ==
    CASE class = "d" -> c \in Digits
      [] class = "s" -> IsSpace(c)
      [] class = "sep" -> c \in {".", ","}
      [] class = "strip" -> c \in {"$", "p", "e", "s", "o"} \/ IsSpace(c)
      [] OTHER -> c # "\n"

\* The number of characters of the class at pos, max at most (NEVER: no limit).
Run(s, pos, class, max) ==
    LET last == IF max = NEVER \/ pos + max - 1 > Len(s) THEN Len(s) ELSE pos + max - 1
        stop == {i \in pos..last : ~InClass(CharAt(s, i), class)}
    IN  IF stop = {} THEN last - pos + 1
        ELSE (CHOOSE i \in stop : \A j \in stop : i <= j) - pos

\* F(v) for the value v of e, which is computed once.
With(e, F(_)) == CHOOSE x \in {F(v) : v \in {e}} : TRUE

Flatten(seqs) ==
    LET total == SumSeq([i \in DOMAIN seqs |-> Len(seqs[i])])
        Before(i) == SumSeq([j \in 1..(i - 1) |-> Len(seqs[j])])
    IN  [n \in 1..total |->
            LET i == CHOOSE i \in DOMAIN seqs : Before(i) < n /\ n <= Before(i) + Len(seqs[i])
            IN  seqs[i][n - Before(i)]]

RECURSIVE OrderedEnds(_, _, _)
RECURSIVE SeqEnds(_, _, _)

\* Where a match of node h that starts at pos can end, in the order in which
\* the engine tries the ways to match h.
OrderedEnds(h, s, pos) ==
    CASE h.kind = "alt" ->
           SelectSeq([i \in DOMAIN h.alts |->
                         IF /\ pos + Len(h.alts[i]) - 1 <= Len(s)
                            /\ SubSeq(s, pos, pos + Len(h.alts[i]) - 1) = h.alts[i]
                         THEN pos + Len(h.alts[i]) ELSE 0],
                     LAMBDA end : end # 0)
      [] h.kind = "rep" ->
           With(Run(s, pos, h.class, h.max), LAMBDA run :
                IF run < h.min THEN <<>>
                ELSE [i \in 1..(run - h.min + 1) |->
                         IF h.greedy THEN pos + run - i + 1 ELSE pos + h.min + i - 1])
      [] h.kind = "opt" -> SeqEnds(h.sub, s, pos) \o <<pos>>
      [] h.kind = "bol" -> IF pos = 1 THEN <<pos>> ELSE <<>>
      [] h.kind = "eol" -> IF pos = Len(s) + 1 THEN <<pos>> ELSE <<>>
      [] OTHER -> <<pos>>

\* The same for a sequence of nodes.
SeqEnds(nodes, s, pos) ==
    IF nodes = <<>> THEN <<pos>>
    ELSE With(OrderedEnds(Head(nodes), s, pos), LAMBDA ends :
              Flatten([i \in DOMAIN ends |-> SeqEnds(Tail(nodes), s, ends[i])]))

\* can[i] is the set of positions from which the nodes i, i+1, ... of the
\* pattern match; can[Len(regex) + 1] is every position.
RECURSIVE Suffixes(_, _)
Suffixes(nodes, s) ==
    IF nodes = <<>> THEN <<1..(Len(s) + 1)>>
    ELSE With(Suffixes(Tail(nodes), s), LAMBDA can :
              <<{pos \in 1..(Len(s) + 1) :
                    \E end \in Range(OrderedEnds(Head(nodes), s, pos)) : end \in can[1]}>>
              \o can)

NoMatch == [ok |-> FALSE]

\* Group 0 is the whole match.
NoCaps == [g \in {0, 1, 2} |-> [from |-> 0, to |-> 0]]

\* The engine's match of the nodes i, i+1, ... from pos on, which exists.
RECURSIVE Walk(_, _, _, _, _, _)
Walk(regex, s, can, i, pos, caps) ==
    IF i > Len(regex) THEN [ok |-> TRUE, caps |-> caps]
    ELSE With(<<OrderedEnds(regex[i], s, pos), i + 1,
                CASE regex[i].kind = "open" -> [caps EXCEPT ![regex[i].g].from = pos]
                  [] regex[i].kind = "close" -> [caps EXCEPT ![regex[i].g].to = pos]
                  [] OTHER -> caps>>,
              LAMBDA a :
              Walk(regex, s, can, a[2],
                   a[1][CHOOSE n \in DOMAIN a[1] :
                           /\ a[1][n] \in can[a[2]]
                           /\ \A m \in 1..(n - 1) : a[1][m] \notin can[a[2]]],
                   a[3]))

\* text.match(regex) for a regex with the i flag, as used here on lower-case
\* patterns: compared on the lower-cased text.
match(s, regex) ==
    With(<<Group(0, regex), toLowerCase(s)>>, LAMBDA a :
         With(Suffixes(a[1], a[2]), LAMBDA can :
              IF can[1] = {} THEN NoMatch
              ELSE Walk(a[1], a[2], can, 1,
                        (CHOOSE pos \in can[1] : \A other \in can[1] : pos <= other),
                        NoCaps)))

\* match[g]
Captured(s, m, g) == SubSeq(s, m.caps[g].from, m.caps[g].to - 1)

\* s.replace(regex, with) without the g flag: the first match only.
ReplaceFirst(regex, s, with) ==
    With(match(s, regex), LAMBDA m :
         IF m.ok THEN SubSeq(s, 1, m.caps[0].from - 1) \o with
                      \o SubSeq(s, m.caps[0].to, Len(s))
         ELSE s)

\* s.replace(regex, with) with the g flag.
RECURSIVE ReplaceAll(_, _, _)
ReplaceAll(regex, s, with) ==
    With(match(s, regex), LAMBDA m :
         IF m.ok /\ m.caps[0].to > m.caps[0].from
         THEN SubSeq(s, 1, m.caps[0].from - 1) \o with
              \o With(SubSeq(s, m.caps[0].to, Len(s)), LAMBDA rest :
                      ReplaceAll(regex, rest, with))
         ELSE s)

\* s.split(/[...]/i) on single characters
RECURSIVE splitOn(_, _)
splitOn(s, chars) ==
    With({j \in 1..Len(s) : toLowerCase(CharAt(s, j)) \in chars}, LAMBDA at :
         IF at = {} THEN <<s>>
         ELSE With(CHOOSE j \in at : \A k \in at : j <= k, LAMBDA i :
                   <<SubSeq(s, 1, i - 1)>>
                   \o With(SubSeq(s, i + 1, Len(s)), LAMBDA rest : splitOn(rest, chars))))

(***************************************************************************)
(* The message parser (services/parser.js).                                *)
(***************************************************************************)
Spaces == Rep("s", 0, NEVER, TRUE)
Spaces1 == Rep("s", 1, NEVER, TRUE)
Dollar == Alt(<<"$", "">>)
Pesos == Alt(<<"pesos", "peso", "">>)
Anything == <<Rep("any", 1, NEVER, TRUE)>>
AnythingLazy == <<Rep("any", 1, NEVER, FALSE)>>

\* \d+(?:[.,]\d{1,2})?
AmountRegex == <<Rep("d", 1, NEVER, TRUE), Opt(<<Rep("sep", 1, 1, TRUE), Rep("d", 1, 2, TRUE)>>)>>

Actions == <<"gaste", "gasto", "compre", "compro", "pague", "pago", "di", "dio">>

patterns ==
    << [name |-> "action_amount_connector_description",
        regex |-> <<Alt(Actions \o <<"costo", "cuesta">>), Spaces, Dollar>>
                  \o Group(1, AmountRegex)
                  \o <<Spaces, Pesos, Spaces, Alt(<<"en", "de", "por", "para", "con">>), Spaces>>
                  \o Group(2, Anything),
        amountIndex |-> 1, descriptionIndex |-> 2],
       [name |-> "action_description_connector_amount",
        regex |-> <<Alt(Actions), Spaces1>> \o Group(1, AnythingLazy)
                  \o <<Spaces1, Alt(<<"por", "en", "de", "a">>), Spaces, Dollar>>
                  \o Group(2, AmountRegex) \o <<Spaces, Pesos>>,
        amountIndex |-> 2, descriptionIndex |-> 1],
       [name |-> "amount_connector_description",
        regex |-> <<Dollar>> \o Group(1, AmountRegex)
                  \o <<Spaces, Pesos, Spaces, Alt(<<"en", "de", "por", "para">>), Spaces>>
                  \o Group(2, Anything),
        amountIndex |-> 1, descriptionIndex |-> 2],
       [name |-> "description_amount",
        regex |-> Group(1, AnythingLazy) \o <<Spaces, Dollar>> \o Group(2, AmountRegex)
                  \o <<Spaces, Pesos, Eol>>,
        amountIndex |-> 2, descriptionIndex |-> 1],
       [name |-> "action_amount_description",
        regex |-> <<Alt(Actions), Spaces>> \o Group(1, AmountRegex)
                  \o <<Spaces, Pesos, Spaces>> \o Group(2, Anything),
        amountIndex |-> 1, descriptionIndex |-> 2],
       [name |-> "amount_only",
        regex |-> <<Bol, Dollar>> \o Group(1, AmountRegex) \o <<Spaces, Pesos, Eol>>,
        amountIndex |-> 1, descriptionIndex |-> 0] >>

normalizeText(text) ==
    ReplaceAll(<<Alt(<<"pesos", "peso">>)>>,
               collapseSpaces(ReplaceChars(trim(toLowerCase(text)), AccentMap)),
               "pesos")

\* text.match(pattern.regex) and the two groups the rule names; no description
\* group is a description of NULL.
tryPattern(text, pattern) ==
    With(match(text, pattern.regex), LAMBDA m :
         IF ~m.ok THEN [ok |-> FALSE]
         ELSE [ok |-> TRUE,
               amount |-> Captured(text, m, pattern.amountIndex),
               description |-> IF pattern.descriptionIndex # 0
                               THEN Captured(text, m, pattern.descriptionIndex)
                               ELSE NULL,
               fullMatch |-> Captured(text, m, 0)])

DigitValue(c) == CHOOSE d \in 0..9 : CharAt("0123456789", d + 1) = c

\* parseFloat, in cents: the digits, then at most two decimals after a dot;
\* whatever follows is ignored.
RECURSIVE parseDigits(_, _)
parseDigits(s, acc) ==
    IF s = "" \/ CharAt(s, 1) \notin Digits THEN [value |-> acc, rest |-> s]
    ELSE parseDigits(Tail(s), 10 * acc + DigitValue(CharAt(s, 1)))

Cents == 100

parseFloat(s) ==
    LET whole == parseDigits(s, 0)
        decimals == IF whole.rest # "" /\ CharAt(whole.rest, 1) = "."
                    THEN SubSeq(whole.rest, 2, 1 + Run(whole.rest, 2, "d", 2))
                    ELSE ""
    IN  IF s = "" \/ CharAt(s, 1) \notin Digits THEN 0
        ELSE Cents * whole.value
             + (IF Len(decimals) = 1 THEN 10 ELSE 1) * parseDigits(decimals, 0).value

\* The amount in cents; 0 stands for null.
normalizeAmount(amountStr) ==
    LET cleanAmount ==
            ReplaceChars(ReplaceAll(<<Rep("strip", 1, 1, TRUE)>>, amountStr, ""),
                         CharMap(",", "."))
    IN  IF amountStr = "" THEN 0 ELSE parseFloat(cleanAmount)

connectors == <<"en", "de", "por", "para", "con", "del", "al">>

categoryKeywords ==
    <<"taco", "comida", "restaurante", "pizza", "hamburgues", "torta",
      "uber", "taxi", "gasolina", "combustible", "camion", "metro",
      "cine", "bar", "cerveza", "antro", "pelicula",
      "ropa", "zapatos", "camisa", "pantalon", "vestido",
      "luz", "agua", "internet", "telefono", "netflix",
      "medicina", "doctor", "farmacia", "consulta", "dentista">>

\* str => str.toUpperCase() on the first character
capitalize(s) ==
    IF s = "" \/ CharAt(s, 1) = "\n" THEN s
    ELSE ReplaceChars(CharAt(s, 1), CharMap(LowerCase, UpperCase)) \o Tail(s)

extractDescriptionFromContext(text) ==
    LET normalizedText == toLowerCase(text)
        found == {i \in DOMAIN categoryKeywords : includes(normalizedText, categoryKeywords[i])}
    IN  IF found = {} THEN "Gasto"
        ELSE capitalize(categoryKeywords[CHOOSE i \in found : \A j \in found : i <= j])

parserNormalizeDescription(descriptionStr, originalText) ==
    IF descriptionStr \in {NULL, ""} THEN extractDescriptionFromContext(originalText)
    ELSE capitalize(trim(
           ReplaceAll(<<Rep("d", 1, NEVER, TRUE), Spaces, Alt(<<"pesos", "peso">>)>>,
             ReplaceAll(<<Alt(<<"$">>), Rep("d", 1, NEVER, TRUE)>>,
               ReplaceFirst(<<Spaces1, Alt(connectors), Eol>>,
                 ReplaceFirst(<<Bol, Alt(connectors), Spaces1>>,
                   collapseSpaces(trim(descriptionStr)), ""), ""), ""), "")))

MaxAmount == 1000000

validateAndNormalize(result, originalText) ==
    With(normalizeAmount(result.amount), LAMBDA amount :
         IF amount <= 0 \/ amount > MaxAmount * Cents THEN [ok |-> FALSE]
         ELSE With(parserNormalizeDescription(result.description, originalText),
                   LAMBDA description :
                   [ok |-> TRUE, amount |-> amount,
                    description |-> IF Len(description) < 2 THEN "Gasto"
                                    ELSE description]))

ExpenseOfDescription(validatedResult, pattern, text) ==
    [amount |-> validatedResult.amount, description |-> validatedResult.description,
     pattern |-> pattern.name, originalText |-> validatedResult.description]

\* { ...validatedResult, pattern: pattern.name, originalText: text }
Expense(validatedResult, pattern, text) ==
    [amount |-> validatedResult.amount, description |-> validatedResult.description,
     pattern |-> pattern.name, originalText |-> text]

\* The loop over the rules from rule i on: the first rule that matches AND
\* validates answers.
RECURSIVE parseFrom(_, _, _)
parseFrom(text, normalizedText, i) ==
    IF i > Len(patterns) THEN NoExpense
    ELSE With(With(tryPattern(normalizedText, patterns[i]), LAMBDA result :
                   IF result.ok THEN validateAndNormalize(result, text)
                   ELSE [ok |-> FALSE]),
              LAMBDA validatedResult :
              IF validatedResult.ok THEN Expense(validatedResult, patterns[i], text)
              ELSE parseFrom(text, normalizedText, i + 1))

parseExpenseMessage(text) ==
    IF text = "" THEN NoExpense
    ELSE With(normalizeText(text), LAMBDA normalizedText : parseFrom(text, normalizedText, 1))

separators == {",", ";", "y", "\n"}

parseMultipleExpenses(text) ==
    IF text = "" THEN <<>>
    ELSE With(splitOn(text, separators), LAMBDA parts :
         With(SelectSeq([i \in DOMAIN parts |-> parseExpenseMessage(trim(parts[i]))],
                        LAMBDA e : e # NoExpense),
              LAMBDA expenses :
              IF expenses # <<>> THEN expenses
              ELSE With(parseExpenseMessage(text), LAMBDA singleExpense :
                        IF singleExpense # NoExpense THEN <<singleExpense>> ELSE <<>>)))

expenseKeywords ==
    <<"gaste", "gasto", "gastamos", "gastaron",
      "compre", "compro", "compramos", "compraron",
      "pague", "pago", "pagamos", "pagaron",
      "di", "dio", "dimos", "dieron",
      "invirti", "invirtio", "invertimos", "invirtieron",
      "costo", "cuesta", "vale", "precio">>

\* /\$?\d+(?:[.,]\d{1,2})?\s*(?:pesos?)?/i
CurrencyPattern == <<Dollar>> \o AmountRegex \o <<Spaces, Pesos>>

hasExpenseKeyword(normalizedText) ==
    \E i \in DOMAIN expenseKeywords : includes(normalizedText, expenseKeywords[i])

\* return hasExpenseKeyword
isExpenseMessageByKeyword(text) ==
    IF text = "" THEN FALSE ELSE hasExpenseKeyword(normalizeText(text))

isExpenseMessage(text) ==
    IF text = "" THEN FALSE
    ELSE With(normalizeText(text), LAMBDA normalizedText :
              hasExpenseKeyword(normalizedText) \/ match(normalizedText, CurrencyPattern).ok)

(***************************************************************************)
(* The parser as a state machine.  Both entry points are synchronous: a    *)
(* call is one step, and its result is held until the caller lets go of it.*)
(***************************************************************************)
MaxParses == 3

ParserTexts ==
    {"", "hola", "5", "150 pesos", "tacos $45", "tacos 0", "tacos 2000000",
     "$100 en comida", "gasto 300 tacos", "gaste $300 en tacos",
     "hoy gaste 50 en tacos", "compre gasolina por $200",
     "Gasté $300,50 en unos tacos", "gaste 1000001", "gaste 1,500 en tacos",
     "gaste 50 en yogurt", "tacos $45; cerveza $60",
     "gaste $300 en tacos y $50 en gasolina", "hola\ntacos $45"}

\* What the two entry points return for each text, evaluated once.
ParseTable ==
    [text \in ParserTexts |->
        [expense |-> parseExpenseMessage(text), expenses |-> parseMultipleExpenses(text)]]

Parsed(text) ==
    IF text \in ParserTexts THEN ParseTable[text].expense ELSE parseExpenseMessage(text)

ParseCall(p, kind, text, first) ==
    /\ Free(p)
    /\ started < MaxParses
    /\ arg' = [arg EXCEPT ![p] = [InitArg EXCEPT !.kind = kind, !.description = text,
                                                 !.startedAt = now]]
    /\ loc' = [loc EXCEPT ![p] = [InitLoc EXCEPT !.first = first]]
    /\ pc' = [pc EXCEPT ![p] = "done"]
    /\ started' = started + 1
    /\ UNCHANGED <<botVars, catVars, now, transactions, user_config, sentAlerts, lastEmit,
                   failures, advances>>

ParseExpenseMessage(p) ==
    \E text \in ParserTexts :
       /\ ParseCall(p, "parse", text, NoExpense)
       /\ ret' = [ret EXCEPT ![p] = [InitRet EXCEPT !.expense = ParseTable[text].expense]]

\* parseExpenseMessage(r.originalText), r the result that another caller holds
ReparseOriginalText(p) ==
    \E q \in Slots :
       /\ pc[q] = "done"
       /\ arg[q].kind \in {"parse", "reparse"}
       /\ ret[q].expense # NoExpense
       /\ ParseCall(p, "reparse", ret[q].expense.originalText, ret[q].expense)
       /\ ret' = [ret EXCEPT ![p] =
                     [InitRet EXCEPT !.expense = Parsed(ret[q].expense.originalText)]]

ParseMultipleExpenses(p) ==
    \E text \in ParserTexts :
       /\ ParseCall(p, "parseMultiple", text, NoExpense)
       /\ ret' = [ret EXCEPT ![p] = [InitRet EXCEPT !.expenses = ParseTable[text].expenses]]

InitParser == InitCat /\ transactions = <<>>

NextParser ==
    \E p \in Slots :
       \/ ParseExpenseMessage(p)
       \/ ReparseOriginalText(p)
       \/ ParseMultipleExpenses(p)
       \/ Return(p)

SpecParser == InitParser /\ [][NextParser]_vars

(***************************************************************************)
(* The connection of the bot on its own: sockets open and close, and the   *)
(* timers of the handler expire.                                           *)
(***************************************************************************)
NextConnection ==
    \/ Initialize
    \/ Reinitialize
    \/ ConnectionOpen
    \/ ConnectionClose

SpecConnection == InitParser /\ [][NextConnection]_vars

(***************************************************************************)
(* The bot's messages (bot/whatsapp.js): processMessage answers a command, *)
(* registers an expense, or answers that it did not understand.  The       *)
(* messages of a chat are handled one after the other.                     *)
(***************************************************************************)
BotUsers == {"u1"}

\* The texts of the parser whose amount is in whole pesos, a text that is a
\* command and has an amount, and one with neither a keyword nor a number.
BotTexts ==
    (ParserTexts \ {"", "Gasté $300,50 en unos tacos"})
       \cup {"Reporte 50 en tacos", "que tal"}

startsWith(s, prefix) == Len(s) >= Len(prefix) /\ SubSeq(s, 1, Len(prefix)) = prefix

\* The command branch of processMessage that takes the message, or NULL.
Command(messageText) ==
    With(trim(toLowerCase(messageText)), LAMBDA text :
         CASE text \in {"/start", "start", "hola"} -> "welcome"
           [] text \in {"/help", "help", "ayuda"} -> "help"
           [] text \in {"/balance", "balance"} -> "balance"
           [] startsWith(text, "/reporte") \/ startsWith(text, "reporte") -> "report"
           [] startsWith(text, "/limites") \/ startsWith(text, "limites") -> "limits"
           [] text \in {"/categorias", "categorias"} -> "categories"
           [] OTHER -> NULL)

\* What the parser and the command branches make of each text, evaluated once.
BotTable ==
    [messageText \in BotTexts |->
        [command |-> Command(messageText),
         isExpense |-> isExpenseMessage(messageText),
         expense |-> Parsed(messageText)]]

\* The amounts of the texts are whole pesos; the parser counts in cents.
InPesos(amount) == amount \div Cents

\* date >= CURRENT_DATE
RowsToday(userPhone) ==
    SelectSeq(transactions,
              LAMBDA r : r.user_phone = userPhone /\ r.date >= now - (now % DAY))

\* getUserConfig: the row of the user, or the default row it creates.
UserConfigOf(userPhone) ==
    IF SelectUserConfig(userPhone) = {} THEN DefaultUserConfig(userPhone)
    ELSE CHOOSE r \in SelectUserConfig(userPhone) : TRUE

WithUserConfig(userPhone) ==
    IF SelectUserConfig(userPhone) = {} THEN user_config \cup {DefaultUserConfig(userPhone)}
    ELSE user_config

\* getSpendingStats(userPhone, 'day'); percentage is Math.round(percentage * 100) / 100,
\* held here in hundredths.
getSpendingStats(userPhone) ==
    LET totalSpent == SumAmount(RowsToday(userPhone))
        limit == UserConfigOf(userPhone).daily_limit
    IN  [totalSpent |-> totalSpent, limit |-> limit,
         percentage |-> IF limit > 0
                        THEN (totalSpent \div limit) * 10000
                             + (2 * (totalSpent % limit) * 10000 + limit) \div (2 * limit)
                        ELSE 0]

\* shouldSendAlert(userPhone, 'day').shouldAlert: thresholds.find(...) is truthy
shouldSendAlert(userPhone) ==
    LET stats == getSpendingStats(userPhone)
        thresholds == thresholdsOf(UserConfigOf(userPhone))
        Holds(i) == /\ stats.percentage >= 100 * thresholds[i]
                    /\ stats.percentage < 100 * (thresholds[i] + 10)
    IN  \E i \in DOMAIN thresholds :
           /\ Holds(i)
           /\ \A j \in 1..(i - 1) : ~Holds(j)
           /\ thresholds[i] # 0

\* processMessage(messageText, userPhone, userName) up to its first await; a
\* command or an unrecognized text is answered at once.
ProcessMessage(p) ==
    /\ sock = "open"
    /\ Quiet
    /\ Free(p)
    /\ started < MaxCalls
    /\ \E userPhone \in BotUsers, messageText \in BotTexts :
          LET t == BotTable[messageText]
              message == [InitArg EXCEPT !.kind = "message", !.user = userPhone,
                                         !.startedAt = now, !.source = "whatsapp",
                                         !.rawData = messageText]
              Answer(reply, isExpense) ==
                  /\ arg' = [arg EXCEPT ![p] = message]
                  /\ loc' = [loc EXCEPT ![p] = [InitLoc EXCEPT !.isExpense = isExpense]]
                  /\ ret' = [ret EXCEPT ![p] = [InitRet EXCEPT !.reply = reply,
                                                               !.finishedAt = now]]
                  /\ pc' = [pc EXCEPT ![p] = "done"]
          IN  IF t.command # NULL THEN Answer(t.command, FALSE)
              ELSE IF t.isExpense /\ t.expense # NoExpense
              THEN \* registerExpense: createTransaction(userPhone, amount,
                   \* description, null, 'whatsapp', originalText)
                   /\ arg' = [arg EXCEPT ![p] =
                                 [message EXCEPT !.kind = "create",
                                                 !.amount = InPesos(t.expense.amount),
                                                 !.description = t.expense.description]]
                   /\ loc' = [StartLoc(p, NULL) EXCEPT ![p].isExpense = TRUE,
                                                       ![p].expenseData = t.expense]
                   /\ ret' = [ret EXCEPT ![p] = InitRet]
                   /\ pc' = [pc EXCEPT ![p] = "categorize"]
              ELSE Answer("unrecognized", t.isExpense)
    /\ started' = started + 1
    /\ UNCHANGED <<botVars, catVars, now, transactions, user_config, sentAlerts, lastEmit,
                   failures, advances>>

\* createTransaction has returned to registerExpense, or has thrown.
FromRegisterExpense(p) == arg[p].kind = "create" /\ arg[p].source = "whatsapp"

RegisterExpenseResumes(p) ==
    /\ pc[p] = "done"
    /\ FromRegisterExpense(p)
    /\ ret[p].reply = NULL
    /\ IF ret[p].raised
       THEN \* catch (error) { return 'Error al registrar el gasto. Intenta de nuevo.' }
            /\ ret' = [ret EXCEPT ![p].reply = "error"]
            /\ UNCHANGED pc
       ELSE /\ pc' = [pc EXCEPT ![p] = "should_alert"]
            /\ UNCHANGED ret
    /\ UNCHANGED <<botVars, catVars, now, transactions, user_config, sentAlerts, arg, loc,
                   lastEmit, started, failures, advances>>

\* const alertCheck = await shouldSendAlert(userPhone, 'day')
ShouldSendAlert(p) ==
    /\ pc[p] = "should_alert"
    /\ loc' = [loc EXCEPT ![p].shouldAlert = shouldSendAlert(arg[p].user)]
    /\ user_config' = WithUserConfig(arg[p].user)
    /\ pc' = [pc EXCEPT ![p] = "today_stats"]
    /\ UNCHANGED <<botVars, transactions, sentAlerts, failures>>
    /\ Calm

\* shouldSendAlert catches: return { shouldAlert: false, error: error.message }
ShouldSendAlertFails(p) ==
    /\ Fails(p, "should_alert")
    /\ loc' = [loc EXCEPT ![p].shouldAlert = FALSE]
    /\ user_config' \in {user_config, WithUserConfig(arg[p].user)}
    /\ pc' = [pc EXCEPT ![p] = "today_stats"]
    /\ UNCHANGED <<botVars, transactions, sentAlerts>>
    /\ Calm

\* const todayStats = await getSpendingStats(userPhone, 'day'); return response
GetSpendingStats(p) ==
    /\ pc[p] = "today_stats"
    /\ user_config' = WithUserConfig(arg[p].user)
    /\ ret' = [ret EXCEPT ![p].reply = "registered", ![p].finishedAt = now]
    /\ pc' = [pc EXCEPT ![p] = "done"]
    /\ UNCHANGED <<botVars, catVars, now, transactions, sentAlerts, arg, loc, lastEmit,
                   started, failures, advances>>

\* getSpendingStats rethrows, and registerExpense catches
GetSpendingStatsFails(p) ==
    /\ Fails(p, "today_stats")
    /\ ret' = [ret EXCEPT ![p].reply = "error", ![p].finishedAt = now]
    /\ pc' = [pc EXCEPT ![p] = "done"]
    /\ UNCHANGED <<botVars, catVars, now, transactions, user_config, sentAlerts, arg, loc,
                   lastEmit, started, advances>>

\* handleMessage: await this.sendMessage(userPhone, response)
SendMessage(p) ==
    /\ ret[p].reply # NULL
    /\ Return(p)

NextBot ==
    \/ Initialize
    \/ ConnectionOpen
    \/ \E p \in Slots :
          \/ ProcessMessage(p)
          \/ Categorizing(p)
          \/ InsertTransaction(p)
          \/ GetUserConfigSelect(p)
          \/ CreateDefaultUserConfig(p)
          \/ GetTotalSpent(p)
          \/ CategoryStats(p)
          \/ GetCategorySpent(p)
          \/ TimeQuery(p)
          \/ RecentQuery(p)
          \/ FinishAlerts(p)
          \/ RegisterExpenseResumes(p)
          \/ ShouldSendAlert(p)
          \/ GetSpendingStats(p)
          \/ SendMessage(p)
          \/ InsertTransactionFails(p)
          \/ ShouldSendAlertFails(p)
          \/ GetSpendingStatsFails(p)

SpecBot == InitCat /\ [][NextBot]_vars

(***************************************************************************)
(* Properties of the alert engine.                                         *)
(***************************************************************************)
Done(p) == pc[p] = "done" /\ ~ret[p].raised

\* When the scope was last returned to the user before call p finished.
EmitBefore(p, k) ==
    IF k \in DOMAIN loc[p].emitBefore THEN loc[p].emitBefore[k] ELSE NEVER

InWindowBefore(p, k) ==
    EmitBefore(p, k) # NEVER /\ ret[p].finishedAt - EmitBefore(p, k) < cacheTimeout

Returned(p, k) == k \in Scopes(ret[p].alerts)

\* C1: an alert that a call detects is returned by it exactly when the same
\* scope was not returned to that user less than one hour before: the second of
\* two calls less than an hour apart does not return it, a call one hour or
\* more after the emission returns it again.
C1_SuppressionWindow ==
    \A p \in Slots : Done(p) =>
        \A k \in Scopes(loc[p].detected) : Returned(p, k) <=> ~InWindowBefore(p, k)

\* A call returns an alert again, the window after its first emission being over.
C1_Witness ==
    \E p \in Slots : Done(p) /\
        \E k \in Scopes(loc[p].detected) :
            /\ Returned(p, k)
            /\ EmitBefore(p, k) # NEVER
            /\ ret[p].finishedAt - EmitBefore(p, k) >= cacheTimeout

ScopeKey(k) ==
    <<k[1], IF k[2] # NULL THEN k[2] ELSE IF k[3] # NULL THEN k[3] ELSE "general">>

\* C2: of two calls for one user that both detect an alert and finish less than
\* an hour apart, at most one returns it; and every emission of the last hour
\* has its entry in the suppression cache, whatever other calls did since.
C2_ConcurrentSuppression ==
    /\ \A p, q \in Slots :
          (p # q /\ Done(p) /\ Done(q) /\ arg[p].user = arg[q].user
             /\ ret[q].finishedAt - ret[p].finishedAt < cacheTimeout
             /\ ret[p].finishedAt - ret[q].finishedAt < cacheTimeout)
          => \A k \in Scopes(loc[p].detected) \cap Scopes(loc[q].detected) :
                ~(Returned(p, k) /\ Returned(q, k))
    /\ \A u \in Users : \A k \in DOMAIN lastEmit[u] :
          now - lastEmit[u][k] < cacheTimeout
          => \E i \in 1..Len(sentAlerts[u]) :
                /\ sentAlerts[u][i].key = ScopeKey(k)
                /\ sentAlerts[u][i].timestamp = lastEmit[u][k]

\* Two calls for one user ran at the same time, both detected the alert, and
\* one of them returned it.
C2_Witness ==
    \E p, q \in Slots :
        /\ p # q /\ Done(p) /\ Done(q) /\ arg[p].user = arg[q].user
        /\ loc[p].overlapped /\ loc[q].overlapped
        /\ arg[p].startedAt <= ret[q].finishedAt /\ arg[q].startedAt <= ret[p].finishedAt
        /\ \E k \in Scopes(loc[p].detected) \cap Scopes(loc[q].detected) :
              Returned(p, k) /\ ~Returned(q, k)

\* The budget detector ran to its end with the user's configuration.
BudgetDone(p) ==
    /\ pc[p] \notin {"idle", "categorize", "insert", "cfg_select", "cfg_insert", "spent"}
    /\ Len(loc[p].spent) = 3

HasWarning(alerts, name, threshold) ==
    \E i \in 1..Len(alerts) :
        /\ alerts[i].type = BUDGET_WARNING
        /\ alerts[i].period = name
        /\ alerts[i].threshold = threshold

\* C3: for each period and each configured threshold T the budget detector
\* produces a warning exactly when T <= percentage < T + 10, where percentage =
\* (spent + newAmount) / limit * 100; the warning is High when percentage >= 90
\* and Medium otherwise.
C3_BudgetBandPolicy ==
    \A p \in Slots : BudgetDone(p) =>
        \A j \in 1..3 :
            LET period == periods(loc[p].cfg)[j]
                projected == loc[p].spent[j] + arg[p].amount
            IN  /\ \A T \in Range(thresholdsOf(loc[p].cfg)) :
                      HasWarning(loc[p].budget, period.name, T)
                      <=> (T * period.limit <= projected * 100
                           /\ projected * 100 < (T + 10) * period.limit)
                /\ \A i \in 1..Len(loc[p].budget) :
                      (loc[p].budget[i].type = BUDGET_WARNING
                         /\ loc[p].budget[i].period = period.name)
                      => loc[p].budget[i].priority =
                            (IF projected * 100 >= 90 * period.limit THEN 3 ELSE 2)

\* One call produced a High warning for a period and none for another period
\* whose percentage is exactly at the upper end of a band.
C3_Witness ==
    \E p \in Slots : BudgetDone(p) /\
        /\ \E i \in 1..Len(loc[p].budget) :
              /\ loc[p].budget[i].type = BUDGET_WARNING
              /\ loc[p].budget[i].priority = 3
        /\ \E j \in 1..3 : \E T \in Range(thresholdsOf(loc[p].cfg)) :
              LET period == periods(loc[p].cfg)[j] IN
              /\ (loc[p].spent[j] + arg[p].amount) * 100 = (T + 10) * period.limit
              /\ ~HasWarning(loc[p].budget, period.name, T)

\* C4: whenever spent + newAmount > limit for a period, the detector produces
\* BudgetExceeded with priority Critical for it, and the call returns it unless
\* BudgetExceeded itself was returned for that period in the last hour: a
\* BudgetWarning of the period in the suppression cache does not matter.
C4_BudgetExceeded ==
    \A p \in Slots : (Done(p) /\ BudgetDone(p)) =>
        \A j \in 1..3 :
            LET period == periods(loc[p].cfg)[j]
                k == <<BUDGET_EXCEEDED, period.name, NULL>>
            IN  loc[p].spent[j] + arg[p].amount > period.limit
                => /\ \E i \in 1..Len(loc[p].detected) :
                         /\ Scope(loc[p].detected[i]) = k
                         /\ loc[p].detected[i].priority = 4
                   /\ Returned(p, k) <=> ~InWindowBefore(p, k)

\* BudgetExceeded is returned for a period whose BudgetWarning is in the cache.
C4_Witness ==
    \E p \in Slots : Done(p) /\ BudgetDone(p) /\
        \E j \in 1..3 :
            LET name == periods(loc[p].cfg)[j].name IN
            /\ Returned(p, <<BUDGET_EXCEEDED, name, NULL>>)
            /\ InWindowBefore(p, <<BUDGET_WARNING, name, NULL>>)
            /\ \E i \in 1..Len(sentAlerts[arg[p].user]) :
                  sentAlerts[arg[p].user][i].key = <<BUDGET_WARNING, name>>

\* C5 as claimed: a detector one of whose storage reads failed contributes no
\* alert, and the alerts of the other detectors are returned.
C5_DetectorIsolation ==
    \A p \in Slots : Done(p) =>
        /\ loc[p].failed \cap {"cfg", "spent"} # {} => loc[p].budget = <<>>
        /\ loc[p].failed \cap {"cat_stats", "cat_spent"} # {} => loc[p].catAlerts = <<>>
        /\ loc[p].failed \cap {"time_q", "recent_q"} # {} => loc[p].pattern = <<>>
        /\ loc[p].detected = loc[p].budget \o loc[p].catAlerts \o loc[p].pattern

(***************************************************************************)
(* Properties of the categorizer.                                          *)
(***************************************************************************)
\* categorizeExpense has returned to call p.
Categorized(p) == loc[p].categorized

DirectoryNames == {categories[i].name : i \in 1..Len(categories)}

\* The scores were computed over the directory as read from storage.
Scored(p) ==
    /\ Categorized(p)
    /\ ~NoDescription(arg[p].description)
    /\ "dir" \notin loc[p].failed

\* C6: categorizeExpense never raises, whatever the description, the user and
\* the failures of its storage reads: it returns a category name, and 'otros'
\* for the empty string.
C6_CategorizerTotality ==
    \A p \in Slots :
        /\ (arg[p].kind = "categorize" /\ pc[p] = "done")
              => /\ ~ret[p].raised
                 /\ Categorized(p)
                 /\ ret[p].category \in DirectoryNames \cup {"otros"}
        /\ (Categorized(p) /\ arg[p].description = "") => loc[p].best = "otros"

\* A call with the empty string and a user has returned 'otros'.
C6_Witness ==
    \E p \in Slots :
        /\ arg[p].kind = "categorize" /\ pc[p] = "done"
        /\ arg[p].description = "" /\ arg[p].user # NULL
        /\ ret[p].category = "otros"

Alphabet == "0123456789_abcdefghijklmnopqrstuvwxyz"

RECURSIVE StringBefore(_, _)
StringBefore(a, b) ==
    IF a = "" THEN b # ""
    ELSE IF b = "" THEN FALSE
    ELSE IF CharAt(a, 1) = CharAt(b, 1) THEN StringBefore(Tail(a), Tail(b))
    ELSE IndexOf(Alphabet, CharAt(a, 1)) < IndexOf(Alphabet, CharAt(b, 1))

MaxScore(scores) ==
    CHOOSE m \in {scores[i].score : i \in 1..Len(scores)} :
        \A i \in 1..Len(scores) : scores[i].score <= m

Tied(scores) ==
    {scores[i].category : i \in {j \in 1..Len(scores) : scores[j].score = MaxScore(scores)}}

\* C8: when the maximum score is above the threshold, the call returns the
\* category with that score whose name is first in alphabetical order, the
\* directory being read in the order of the names.
C8_TieBreak ==
    \A p \in Slots : (Scored(p) /\ loc[p].scores # <<>>) =>
        /\ \A i, j \in 1..Len(loc[p].dir) :
              i < j => StringBefore(loc[p].dir[i].name, loc[p].dir[j].name)
        /\ MaxScore(loc[p].scores) > Threshold
              => /\ loc[p].best \in Tied(loc[p].scores)
                 /\ \A n \in Tied(loc[p].scores) \ {loc[p].best} :
                       StringBefore(loc[p].best, n)

\* Two categories had the same maximum score, above the threshold.
C8_Witness ==
    \E p \in Slots :
        /\ Scored(p) /\ loc[p].scores # <<>>
        /\ MaxScore(loc[p].scores) > Threshold
        /\ Cardinality(Tied(loc[p].scores)) >= 2
        /\ loc[p].best = "comida"

\* C9 as claimed: the category of every row of transactions is a name of the
\* category directory or 'otros'.
C9_PersistedCategoryKnown ==
    \A i \in 1..Len(transactions) :
        transactions[i].category \in DirectoryNames \cup {"otros"}

\* C10 as claimed: whenever a category other than 'otros' has a score above
\* the threshold, the call returns a category other than 'otros'.
C10_DefaultNeverCompetes ==
    \A p \in Slots : Scored(p) =>
        ((\E i \in 1..Len(loc[p].scores) :
             /\ loc[p].scores[i].category # "otros"
             /\ loc[p].scores[i].score > Threshold)
         => loc[p].best # "otros")

(***************************************************************************)
(* Properties of the directory cache.                                      *)
(***************************************************************************)
\* C11 as claimed: a call of categorizeExpense that starts after
\* updateCategoryKeywords has returned uses a directory read from storage
\* after that update, whatever reads were in flight during the update.
C11_CacheInvalidation ==
    \A p \in Slots : Scored(p) => loc[p].used >= loc[p].floor

\* getCategories was called by call p (the description was not empty).
AskedDirectory(p) ==
    /\ pc[p] \notin {"idle", "categorize"}
    /\ arg[p].kind \in {"categorize", "create"}
    /\ arg[p].category = NULL
    /\ ~NoDescription(arg[p].description)

\* The age, when call p asked, of the directory the cache then held.
CacheAge(p) == loc[p].calledAt - loc[p].sawLoadedAt

\* C12: getCategories returns the cached directory only if it was put in the
\* cache less than 5 minutes before the call; and if the cache holds a
\* directory loaded less than 5 minutes before and not invalidated since, the
\* call returns it without reading storage.
C12_DirectoryTTL ==
    \A p \in Slots : AskedDirectory(p) =>
        /\ loc[p].fromCache
              => /\ loc[p].sawLoadedAt # NEVER
                 /\ CacheAge(p) < categoriesCacheTimeout
        /\ (loc[p].sawLoadedAt # NEVER /\ CacheAge(p) < categoriesCacheTimeout)
              => /\ loc[p].fromCache
                 /\ pc[p] \notin {"dir_query", "dir_result"}

\* A call found a directory put in the cache exactly 5 minutes before and
\* read storage.
C12_Witness ==
    \E p \in Slots :
        /\ AskedDirectory(p) /\ Categorized(p)
        /\ loc[p].sawLoadedAt # NEVER
        /\ CacheAge(p) = categoriesCacheTimeout
        /\ ~loc[p].fromCache

\* C13: no step of a categorizeExpense call, whatever frequencies its learning
\* step observes, changes the keywords in storage, and the cache only ever
\* receives rows read from storage: the table changes only when the UPDATE of
\* updateCategoryKeywords runs, the cache only when getCategories stores the
\* rows it read or clearCache empties it.
C13_LearningAuditOnly ==
    [][/\ categories' # categories
           => \E p \in Slots : pc[p] = "update" /\ pc'[p] = "updated"
       /\ categoriesCache' # categoriesCache
           => \E p \in Slots :
                 \/ pc[p] = "dir_result" /\ categoriesCache' = <<loc[p].dirRows>>
                 \/ pc[p] = "updated" /\ categoriesCache' = <<>>]_vars

\* The learning step of a call found a word in three or more of the user's
\* transactions, and the table and the cache hold the seeded keywords.
C13_Witness ==
    \E p \in Slots :
        /\ Categorized(p) /\ loc[p].learned # {}
        /\ categories = SeedCategories
        /\ categoriesCache = <<SeedCategories>>

(***************************************************************************)
(* Properties of the parser.  Amounts are in cents.                        *)
(***************************************************************************)
ParseDone(p) == pc[p] = "done" /\ arg[p].kind \in {"parse", "reparse"}

\* The rules whose regex matches the normalized text.
MatchingRules(text) ==
    {i \in DOMAIN patterns : tryPattern(normalizeText(text), patterns[i]).ok}

MatchingTable == [text \in ParserTexts |-> MatchingRules(text)]

\* C14: the pattern name of a result of parseExpenseMessage is the name of the
\* earliest-listed rule that matches the normalized text.
C14_FirstMatchPolicy ==
    \A p \in Slots :
       (ParseDone(p) /\ arg[p].kind = "parse" /\ ret[p].expense # NoExpense) =>
          LET matching == MatchingTable[arg[p].description] IN
          /\ matching # {}
          /\ ret[p].expense.pattern
                = patterns[CHOOSE i \in matching : \A j \in matching : i <= j].name

\* The numbers written in a text: the maximal runs of digits with separators
\* between them, each read as parseExpenseMessage reads an amount.
NumberTokens(s) ==
    LET Numeric(i, j) == \A k \in i..j : CharAt(s, k) \in Digits \cup {".", ","}
        Digit(i) == CharAt(s, i) \in Digits
    IN  {SubSeq(s, i, j) : <<i, j>> \in
            {<<i, j>> \in (1..Len(s)) \X (1..Len(s)) :
                /\ i <= j /\ Numeric(i, j) /\ Digit(i) /\ Digit(j)
                /\ ~\E k \in 1..(i - 1) : Digit(k) /\ Numeric(k, i)
                /\ ~\E k \in (j + 1)..Len(s) : Digit(k) /\ Numeric(j, k)}}

WrittenAmounts(text) == {normalizeAmount(token) : token \in NumberTokens(normalizeText(text))}

WrittenTable == [text \in ParserTexts |-> WrittenAmounts(text)]

InBounds(amount) == 0 < amount /\ amount <= MaxAmount * Cents

\* C15: every result of parseExpenseMessage has an amount above 0 and at most
\* 1,000,000 that is an amount written in the text, not a fragment of one; a
\* text whose written amounts are all out of these bounds gives no result.
C15_AmountBounds ==
    \A p \in Slots :
       (ParseDone(p) /\ arg[p].kind = "parse") =>
          LET written == WrittenTable[arg[p].description] IN
          /\ ret[p].expense # NoExpense =>
                /\ InBounds(ret[p].expense.amount)
                /\ ret[p].expense.amount \in written
          /\ (written # {} /\ \A amount \in written : ~InBounds(amount)) =>
                ret[p].expense = NoExpense

\* C16: parsing the originalText of a result that parseExpenseMessage gave
\* returns a result equal to it in amount, description, pattern and
\* originalText, whatever other calls were made in between.
C16_ParserIdempotence ==
    \A p \in Slots :
       (ParseDone(p) /\ arg[p].kind = "reparse") => ret[p].expense = loc[p].first

\* A text with capitals, an accent and a decimal comma was parsed, another call
\* was made, and the originalText of the result, still held, was parsed again.
C16_Witness ==
    \E p, q \in Slots :
       /\ ParseDone(p) /\ arg[p].kind = "reparse"
       /\ ParseDone(q) /\ arg[q].kind = "parse"
       /\ started = MaxParses
       /\ loc[p].first = ret[q].expense
       /\ arg[p].description = arg[q].description
       /\ normalizeText(arg[q].description) # arg[q].description
       /\ ret[p].expense.amount = 30050

\* 'y' standing as a word of its own
WordY(text) ==
    \E i \in 1..Len(text) :
       /\ toLowerCase(CharAt(text, i)) = "y"
       /\ i = 1 \/ IsSpace(CharAt(text, i - 1))
       /\ i = Len(text) \/ IsSpace(CharAt(text, i + 1))

HasSeparator(text) ==
    \/ \E c \in {",", ";", "\n"} : includes(text, c)
    \/ WordY(text)

\* C17: for a text with no comma, semicolon, newline or word 'y',
\* parseMultipleExpenses returns the one result of parseExpenseMessage on the
\* text, or the empty list when that gives none.
C17_SplitOnSeparators ==
    \A p \in Slots :
       (pc[p] = "done" /\ arg[p].kind = "parseMultiple"
          /\ ~HasSeparator(arg[p].description)) =>
          ret[p].expenses = IF Parsed(arg[p].description) # NoExpense
                            THEN <<Parsed(arg[p].description)>> ELSE <<>>

(***************************************************************************)
(* Properties of the user configuration.                                   *)
(***************************************************************************)
\* The getUserConfig of call p has come back.
ConfigAnswered(p) ==
    arg[p].kind = "check" /\ pc[p] \notin {"idle", "cfg_select", "cfg_insert"}

\* C18: a user has at most one configuration record, and every getUserConfig
\* that has come back returned the one record of its user and no error, a
\* record with the defaults when it was created on the way; this also when two
\* calls make the first access for the same new user at the same time.
C18_LazyUserConfig ==
    /\ \A u \in Users : Cardinality(SelectUserConfig(u)) <= 1
    /\ \A p \in Slots : ConfigAnswered(p) =>
          /\ "cfg" \notin loc[p].failed
          /\ SelectUserConfig(arg[p].user) = {loc[p].cfg}
          /\ (\A r \in InitialUserConfig : r.user_phone # arg[p].user) =>
                loc[p].cfg = DefaultUserConfig(arg[p].user)

(***************************************************************************)
(* Further properties of the suppression cache.                            *)
(***************************************************************************)
\* C19: a call drops an alert it detected only when an alert with the
\* identical scope key, type + (period or category or 'general'), was returned
\* to the same user less than an hour before.  What another user was sent, or
\* what the user was sent under another type, period or category, drops
\* nothing.
C19_DedupKeyedByUserAndScope ==
    \A p \in Slots : Done(p) =>
          \A k \in Scopes(loc[p].detected) :
             ~Returned(p, k) =>
                \E e \in DOMAIN loc[p].emitBefore :
                   ScopeKey(e) = ScopeKey(k) /\ InWindowBefore(p, e)

\* A call returned an alert although, less than an hour before it finished,
\* another user had been sent an alert with the same scope key and the user
\* itself nothing.
C19_Witness ==
    \E p \in Slots : Done(p) /\
       \E k \in Scopes(loc[p].detected), u \in Users \ {arg[p].user} :
          /\ Returned(p, k)
          /\ loc[p].emitBefore = <<>>
          /\ k \in DOMAIN lastEmit[u]
          /\ lastEmit[u][k] <= ret[p].finishedAt
          /\ ret[p].finishedAt - lastEmit[u][k] < cacheTimeout

\* C20: every entry of the suppression cache is an alert that was returned to
\* the user, with the time of the return: an attempt that is dropped leaves no
\* entry and refreshes none.  So an alert is returned whenever the user was
\* last returned it an hour or more ago, whatever was dropped since.
C20_OnlyEmittedRecorded ==
    /\ \A u \in Users : \A i \in 1..Len(sentAlerts[u]) :
          \E e \in DOMAIN lastEmit[u] :
             /\ ScopeKey(e) = sentAlerts[u][i].key
             /\ lastEmit[u][e] = sentAlerts[u][i].timestamp
    /\ \A p \in Slots : Done(p) =>
          \A k \in Scopes(loc[p].detected) :
             (EmitBefore(p, k) = NEVER
                \/ ret[p].finishedAt - EmitBefore(p, k) >= cacheTimeout)
             => Returned(p, k)

\* The third of three attempts, each of which detects the alert: the first
\* returned it, the second came less than an hour later and was dropped, and
\* the third, exactly one hour after the first, returns it.
C20_Witness ==
    \E p \in Slots : Done(p) /\
       \E k \in Scopes(loc[p].detected) :
          /\ started = MaxAttempts
          /\ transactions = <<>>
          /\ Returned(p, k)
          /\ EmitBefore(p, k) # NEVER
          /\ ret[p].finishedAt - EmitBefore(p, k) = cacheTimeout

(***************************************************************************)
(* Further properties of the budget detector.                              *)
(***************************************************************************)
\* C21: whatever list of thresholds the user has configured, the list that one
\* checkAllAlerts call returns holds at most one budget_warning per period:
\* no two of its alerts are warnings with the same scope key.
C21_OneWarningPerPeriod ==
    \A p \in Slots : Done(p) =>
       \A i, j \in 1..Len(ret[p].alerts) :
          (/\ i # j
           /\ ret[p].alerts[i].type = BUDGET_WARNING
           /\ ret[p].alerts[j].type = BUDGET_WARNING)
          => alertKey(ret[p].alerts[i]) # alertKey(ret[p].alerts[j])

\* What user u had spent over the interval before createTransaction call p
\* inserted its row, the last row of the table while the call runs alone.
PersistedBefore(p, interval) ==
    SumAmount(SelectSeq(SubSeq(transactions, 1, Len(transactions) - 1),
                        LAMBDA r : /\ r.user_phone = arg[p].user
                                   /\ r.date >= now - interval))

\* C22: when createTransaction registers an expense, the projected spend of
\* every period, the spend read by the budget detector plus the amount, is the
\* spend persisted before this expense plus the amount, counted once.
C22_ProjectedCountsOnce ==
    \A p \in Slots : (arg[p].kind = "create" /\ loc[p].inserted) =>
       \A i \in 1..Len(loc[p].spent) :
          loc[p].spent[i] + arg[p].amount
             = PersistedBefore(p, periods(loc[p].cfg)[i].interval) + arg[p].amount

(***************************************************************************)
(* Properties of the pattern and category detectors.                       *)
(***************************************************************************)
FrequentSpending == <<SPENDING_PATTERN, NULL, NULL, "frequent_spending">>
UnusualTime == <<SPENDING_PATTERN, NULL, NULL, "unusual_time">>

\* Call p returned a spending_pattern alert of the pattern.
ReturnedPattern(p, k) ==
    \E i \in 1..Len(ret[p].alerts) : PatternOf(ret[p].alerts[i]) = k

\* The pattern was not returned to the user of call p in the hour before.
NotInHourBefore(p, k) ==
    EmitBefore(p, k) = NEVER \/ ret[p].finishedAt - EmitBefore(p, k) >= cacheTimeout

\* C23: a call returns frequent_spending whenever the user has 5 or more
\* transactions in the trailing 2 hours and was returned no frequent_spending
\* in the hour before, also when an unusual_time was returned in that hour;
\* and the same for unusual_time (fewer than 2 transactions at this hour of the
\* day in 60 days, amount above 100) against frequent_spending.
C23_PatternsSuppressedApart ==
    \A p \in Slots : Done(p) =>
       /\ (Len(RowsSince(arg[p].user, 2 * HOUR)) >= 5
             /\ NotInHourBefore(p, FrequentSpending))
          => ReturnedPattern(p, FrequentSpending)
       /\ (Len(RowsAtHour(arg[p].user, HourOf(now))) < 2 /\ arg[p].amount > 100
             /\ NotInHourBefore(p, UnusualTime))
          => ReturnedPattern(p, UnusualTime)

\* The category detector of call p has run to its end.
CategoryDone(p) ==
    /\ pc[p] \in {"time_q", "recent_q", "finish", "done"}
    /\ ~ret[p].raised
    /\ Cat(p) # NULL
    /\ arg[p].amount > 0

\* The user's transactions of the category in the trailing 30 days, without
\* the expense that call p is about: createTransaction has inserted it as the
\* last row of the table.
PriorCategoryRows(p) ==
    SelectSeq(IF loc[p].inserted
              THEN SubSeq(transactions, 1, Len(transactions) - 1)
              ELSE transactions,
              LAMBDA r : /\ r.user_phone = arg[p].user
                         /\ r.category = Cat(p)
                         /\ r.date >= now - 30 * DAY)

\* C24: the category detector produces a category_limit alert, of priority
\* high, exactly when the user has more than 3 transactions of the category in
\* the trailing 30 days and 1.5 times their total is below that total plus the
\* new amount, the total being the one persisted without the new expense; with
\* 3 or fewer such transactions it produces no alert.
C24_CategoryLimit ==
    \A p \in Slots : CategoryDone(p) =>
       LET rows == PriorCategoryRows(p)
           total == SumAmount(rows)
           limits == {i \in 1..Len(loc[p].catAlerts) :
                         loc[p].catAlerts[i].type = CATEGORY_LIMIT}
       IN  /\ (limits # {}) <=> (Len(rows) > 3 /\ total * 3 < (total + arg[p].amount) * 2)
           /\ \A i \in limits : loc[p].catAlerts[i].priority = HIGH
           /\ Len(rows) <= 3 => loc[p].catAlerts = <<>>

(***************************************************************************)
(* Pruning of the suppression cache.                                       *)
(***************************************************************************)
\* C25: once a checkAllAlerts call for a user has returned, no entry of the
\* user's suppression list is 1 hour or more older than the time of the call,
\* and every entry is an alert that was returned to a caller, with the time
\* of that return.
C25_LazyPruning ==
    \A p \in Slots : (Done(p) /\ arg[p].kind \in {"check", "create"}) =>
       \A i \in 1..Len(sentAlerts[arg[p].user]) :
          LET entry == sentAlerts[arg[p].user][i] IN
          /\ ret[p].finishedAt - entry.timestamp < cacheTimeout
          /\ \E k \in DOMAIN lastEmit[arg[p].user] :
                /\ ScopeKey(k) = entry.key
                /\ lastEmit[arg[p].user][k] = entry.timestamp
                /\ lastEmit[arg[p].user][k] <= now

\* A call that detected nothing found the entry of an alert returned exactly
\* one hour before, and left the list empty.
C25_Witness ==
    \E p \in Slots :
       /\ Done(p) /\ arg[p].kind = "check"
       /\ loc[p].detected = <<>>
       /\ sentAlerts[arg[p].user] = <<>>
       /\ \E k \in DOMAIN loc[p].emitBefore :
             ret[p].finishedAt - loc[p].emitBefore[k] = cacheTimeout

(***************************************************************************)
(* Further properties of the categorizer.                                  *)
(***************************************************************************)
\* C26: categorizeExpense returns a category other than 'otros' only if that
\* category's total score is above 2 and no category has a higher score; and
\* if no category has a score above 2 it returns 'otros'.
C26_SelectionThreshold ==
    \A p \in Slots : Scored(p) =>
       /\ loc[p].best # "otros" =>
             \E i \in 1..Len(loc[p].scores) :
                /\ loc[p].scores[i].category = loc[p].best
                /\ loc[p].scores[i].score > 2 * ScoreScale
                /\ \A j \in 1..Len(loc[p].scores) :
                      loc[p].scores[j].score <= loc[p].scores[i].score
       /\ (\A i \in 1..Len(loc[p].scores) : loc[p].scores[i].score <= 2 * ScoreScale)
             => loc[p].best = "otros"

\* A description whose best category has a score of exactly 2, one partial
\* match, was given 'otros'.
C26_Witness ==
    \E p \in Slots :
       /\ Scored(p) /\ pc[p] = "done"
       /\ arg[p].description = "taco"
       /\ loc[p].scores # <<>>
       /\ MaxScore(loc[p].scores) = 2 * ScoreScale
       /\ ret[p].category = "otros"

\* C27: a description that is not empty but whose normalized form is, being
\* made of blanks and characters that are neither letters nor digits, has a
\* score of 0 in every category, and categorizeExpense returns 'otros' for it.
C27_PunctuationScoresNothing ==
    \A p \in Slots :
       (Scored(p) /\ arg[p].description # ""
          /\ normalizeDescription(arg[p].description) = "")
       => /\ \A i \in 1..Len(loc[p].scores) : loc[p].scores[i].score = 0
          /\ loc[p].best = "otros"

\* C30: reconnectAttempts never exceeds maxReconnectAttempts (5); the handler
\* of a 'close' schedules a reconnection (initialize after 5000 ms times the
\* attempt number) only when fewer than 5 consecutive attempts were made
\* before it and the status code is not loggedOut; the counter is the number
\* of reconnections scheduled since the last 'open', and is 0 while a
\* connection is open.
C30_BoundedReconnection ==
    /\ reconnectAttempts \in 0..maxReconnectAttempts
    /\ reconnectAttempts = closeLog.sinceOpen
    /\ sock = "open" => reconnectAttempts = 0
    /\ closeLog.scheduled =>
          /\ closeLog.attempts < 5
          /\ closeLog.statusCode # "loggedOut"
          /\ closeLog.delay = ReconnectDelay * (closeLog.attempts + 1)
    /\ \A delay \in timers : delay <= ReconnectDelay * maxReconnectAttempts

\* Five reconnections in a row were made and the socket closed again for a
\* reason other than a logout: no sixth reconnection is scheduled.
C30_Witness ==
    /\ closeLog.attempts = 5
    /\ closeLog.statusCode = "connectionLost"
    /\ ~closeLog.scheduled
    /\ reconnectAttempts = 5
    /\ timers = {}

\* A message of the chat that no command branch took.
FreeText(p) ==
    /\ pc[p] # "idle"
    /\ arg[p].source = "whatsapp"
    /\ BotTable[arg[p].rawData].command = NULL

\* C28: the pre-filter has no false negatives: for every text on which
\* parseExpenseMessage returns a result, isExpenseMessage returned true, so the
\* bot, which parses only when the pre-filter is true, hands every such text
\* to registerExpense with the result of the parser, and answers that it did
\* not understand only texts on which the parser returns null.
C28_PreFilterNoFalseNegative ==
    \A p \in Slots : FreeText(p) =>
       LET expense == BotTable[arg[p].rawData].expense IN
       /\ expense # NoExpense =>
             /\ loc[p].isExpense
             /\ FromRegisterExpense(p)
             /\ loc[p].expenseData = expense
       /\ ret[p].reply = "unrecognized" => expense = NoExpense
       /\ FromRegisterExpense(p) => expense # NoExpense

\* A text with an amount and no expense keyword passed the pre-filter and its
\* expense of 45 pesos was inserted.
C28_Witness ==
    \E p \in Slots :
       /\ FreeText(p)
       /\ arg[p].rawData = "tacos $45"
       /\ ~isExpenseMessageByKeyword(arg[p].rawData)
       /\ loc[p].isExpense
       /\ loc[p].inserted
       /\ arg[p].amount = 45

\* C29: if registerExpense answers 'Error al registrar el gasto. Intenta de
\* nuevo.' then no transaction of that message was persisted, and whenever the
\* transaction was inserted the answer is the 'Gasto registrado' confirmation.
C29_ErrorMeansNotPersisted ==
    \A p \in Slots : (FromRegisterExpense(p) /\ ret[p].reply # NULL) =>
       /\ ret[p].reply = "error" => ~loc[p].inserted
       /\ loc[p].inserted => ret[p].reply = "registered"

====
